---- MODULE Spec2Model ----
(***************************************************************************)
(* Telemetry alignment and comparison engine                               *)
(* (src/data-processing/services/data_alignment.py and                     *)
(*  src/data-processing/services/comparison_engine.py).                    *)
(*                                                                         *)
(* Python floats are modelled as exact rationals <<n, d>> (d > 0, lowest   *)
(* terms) extended with the IEEE values the numpy code can produce:        *)
(* <<1, 0>> = +inf, <<-1, 0>> = -inf and <<0, 0>> = NaN.                    *)
(* Optional[T] is modelled as a sequence: <<>> is None, <<v>> is v.        *)
(***************************************************************************)
EXTENDS Integers, Sequences, FiniteSets, TLC

(***************************************************************************)
(* Bounds of the model                                                     *)
(***************************************************************************)
\* most samples in a lap of a content request
MaxSamples == 3
\* most laps in a session of a selection request
MaxLaps == 2
\* seconds between two samples of a generated lap
SampleInterval == 2
\* most grid points, and the largest time value, of a direct delta analysis
MaxGrid == 3
MaxTimeValue == 2
\* the largest pedal position (percent) handed to classify_action
MaxPedal == 100
\* the largest sector count of a track sector analyzer
MaxSectors == 4
\* the largest ids of the first and of the second stored session of a request
MaxSession1Id == 2
MaxSession2Id == 1
\* the number of invocations in flight on the shared processor
MaxInvocations == 2
\* the largest number of ComparisonPoints of a lap
MaxPoints == 4
\* the calls of the rate limiter in one behaviour, and the limit they are
\* checked against: max_requests calls per window_seconds seconds
MaxCalls == 4
max_requests == 2
window_seconds == 400

(***************************************************************************)
(* Floats                                                                  *)
(***************************************************************************)
Abs(x) == IF x < 0 THEN -x ELSE x

Sgn(x) == IF x < 0 THEN -1 ELSE IF x > 0 THEN 1 ELSE 0

RECURSIVE GCD(_, _)
GCD(a, b) == IF b = 0 THEN a ELSE GCD(b, a % b)

NaN == <<0, 0>>

Rat(n, d) ==
    IF d = 0 THEN <<Sgn(n), 0>>
    ELSE LET g == GCD(Abs(n), Abs(d))
             s == IF d < 0 THEN -1 ELSE 1
         IN  <<(s * n) \div g, (s * d) \div g>>

R(i) == <<i, 1>>

IsNaN(a) == a = NaN
IsInf(a) == a[2] = 0 /\ a[1] # 0
IsFinite(a) == a[2] # 0

RNeg(a) == <<-a[1], a[2]>>
RAbs(a) == <<Abs(a[1]), a[2]>>
RAdd(a, b) ==
    IF IsInf(a) /\ IsInf(b)
    THEN (IF a = b THEN a ELSE NaN)
    ELSE Rat(a[1] * b[2] + b[1] * a[2], a[2] * b[2])
RSub(a, b) == RAdd(a, RNeg(b))
RMul(a, b) == Rat(a[1] * b[1], a[2] * b[2])
\* numpy float division: x/0 is +-inf, 0/0 is NaN (a warning, no exception)
RDiv(a, b) ==
    IF IsNaN(a) \/ IsNaN(b) THEN NaN
    ELSE IF IsInf(a) /\ IsInf(b) THEN NaN
    ELSE IF IsInf(b) THEN R(0)
    ELSE LET s == IF b[1] < 0 THEN -1 ELSE 1
         IN  Rat(s * a[1] * b[2], s * a[2] * b[1])
\* every comparison with NaN is false
RLt(a, b) ==
    /\ ~IsNaN(a)
    /\ ~IsNaN(b)
    /\ IF IsInf(a) /\ IsInf(b) THEN a[1] < b[1]
       ELSE IF IsInf(a) THEN a[1] < 0
       ELSE IF IsInf(b) THEN b[1] > 0
       ELSE a[1] * b[2] < b[1] * a[2]
RLe(a, b) == ~IsNaN(a) /\ ~IsNaN(b) /\ (a = b \/ RLt(a, b))
RGt(a, b) == RLt(b, a)
RGe(a, b) == RLe(b, a)
\* Python's max(a, b) and min(a, b) on two numbers
RMax(a, b) == IF RGt(b, a) THEN b ELSE a
RMin(a, b) == IF RLt(b, a) THEN b ELSE a
\* ceil of a finite value, as an integer
RCeil(a) == -((-a[1]) \div a[2])
RFloor(a) == a[1] \div a[2]

(***************************************************************************)
(* Optional values                                                         *)
(***************************************************************************)
None == <<>>
Some(v) == <<v>>
\* Python truthiness of an Optional[number]: None and 0 are falsy
Truthy(o) == o # None /\ o[1] # 0
\* Python's `o or dflt` on an Optional[number]
OrElse(o, dflt) == IF Truthy(o) THEN o[1] ELSE dflt

(***************************************************************************)
(* Data model (models/telemetry_models.py)                                 *)
(***************************************************************************)
\* TelemetryDataPoint: time is required, every other field is Optional.
\* Latitudes are in micro-radians on one meridian (see CalculateGpsDistance).
TelemetryDataPoint(time, speed, throttle_pos, brake_pos, gear, rpm, water_temp, oil_temp, gps_latitude, gps_longitude) ==
    [time |-> time, speed |-> speed, throttle_pos |-> throttle_pos,
     brake_pos |-> brake_pos, gear |-> gear, rpm |-> rpm,
     water_temp |-> water_temp, oil_temp |-> oil_temp,
     gps_latitude |-> gps_latitude, gps_longitude |-> gps_longitude]

LapData(lap_number, lap_time, data_points, is_fastest) ==
    [lap_number |-> lap_number, lap_time |-> lap_time,
     data_points |-> data_points, is_fastest |-> is_fastest]

SessionData(driver_name, laps, fastest_lap) ==
    [driver_name |-> driver_name, laps |-> laps, fastest_lap |-> fastest_lap]

(***************************************************************************)
(* Distance Estimator (DataAlignmentEngine._calculate_distance_alignment)  *)
(***************************************************************************)
gps_earth_radius == 6371000

\* Haversine distance. The model's GPS points lie on one meridian
\* (lon1 = lon2), where a = sin^2(dlat/2) and c = 2*asin(sqrt(a)) = |dlat|,
\* so the result is gps_earth_radius * |dlat|, dlat in micro-radians.
CalculateGpsDistance(lat1, lon1, lat2, lon2) ==
    Rat(gps_earth_radius * Abs(lat2 - lat1), 1000000)

\* an increment whose speed fallback reads a missing speed as 36 km/h
DistanceIncrementDefaultSpeed(prev_point, point) ==
    IF /\ Truthy(point.gps_latitude) /\ Truthy(point.gps_longitude)
       /\ Truthy(prev_point.gps_latitude) /\ Truthy(prev_point.gps_longitude)
    THEN CalculateGpsDistance(prev_point.gps_latitude[1], prev_point.gps_longitude[1],
                              point.gps_latitude[1], point.gps_longitude[1])
    ELSE LET time_diff == point.time - prev_point.time
             avg_speed == Rat(OrElse(point.speed, 36) + OrElse(prev_point.speed, 36), 2)
         IN  RMul(RDiv(RMul(avg_speed, R(1000)), R(3600)), R(time_diff))

\* the distance added between prev_point and point (lines 137-151)
DistanceIncrement(prev_point, point) ==
    IF /\ Truthy(point.gps_latitude) /\ Truthy(point.gps_longitude)
       /\ Truthy(prev_point.gps_latitude) /\ Truthy(prev_point.gps_longitude)
    THEN CalculateGpsDistance(prev_point.gps_latitude[1], prev_point.gps_longitude[1],
                              point.gps_latitude[1], point.gps_longitude[1])
    ELSE LET time_diff == point.time - prev_point.time
             avg_speed == Rat(OrElse(point.speed, 0) + OrElse(prev_point.speed, 0), 2)
         IN  RMul(RDiv(RMul(avg_speed, R(1000)), R(3600)), R(time_diff))

RECURSIVE CumulativeDistance(_, _)
CumulativeDistance(data_points, i) ==
    IF i = 1 THEN R(0)
    ELSE RAdd(CumulativeDistance(data_points, i - 1),
              DistanceIncrement(data_points[i - 1], data_points[i]))

\* the dict appended for sample i (lines 122-134 and 155-167)
AlignedPoint(data_points, i) ==
    LET point == data_points[i] IN
    [distance   |-> CumulativeDistance(data_points, i),
     time       |-> R(point.time),
     speed      |-> R(OrElse(point.speed, 0)),
     throttle   |-> R(OrElse(point.throttle_pos, 0)),
     brake      |-> R(OrElse(point.brake_pos, 0)),
     gear       |-> R(OrElse(point.gear, 1)),
     rpm        |-> R(OrElse(point.rpm, 0)),
     gps_lat    |-> point.gps_latitude,
     gps_lon    |-> point.gps_longitude,
     water_temp |-> point.water_temp,
     oil_temp   |-> point.oil_temp]

\* None for a lap without samples, else one distance-tagged dict per sample
CalculateDistanceAlignment(lap) ==
    IF lap.data_points = <<>> THEN None
    ELSE Some([i \in 1..Len(lap.data_points) |-> AlignedPoint(lap.data_points, i)])

(***************************************************************************)
(* Track Aligner (_align_by_distance, _interpolate_lap_data)               *)
(***************************************************************************)
distance_spacing == 10

Channels == {"time", "speed", "throttle", "brake", "gear", "rpm",
             "water_temp", "oil_temp"}
\* the channels whose dict entry can be None (lines 132-133, 165-166)
OptionalChannels == {"water_temp", "oil_temp"}

EmptyDict == [c \in {} |-> <<>>]

\* a grid of floor(stop / step) points, which drops the last point below stop
\* when stop is no multiple of step
ArangeFloor(stop, step) ==
    LET n == IF RGt(stop, R(0)) THEN RFloor(RDiv(stop, R(step))) ELSE 0
    IN  [i \in 1..n |-> R((i - 1) * step)]

\* np.arange(0, stop, step): 0, step, 2*step, ... strictly below stop
Arange(stop, step) ==
    LET n == IF RGt(stop, R(0)) THEN RCeil(RDiv(stop, R(step))) ELSE 0
    IN  [i \in 1..n |-> R((i - 1) * step)]

\* interp1d sorts its points by x with a stable sort (assume_sorted=False)
InsertByX(sorted, p) ==
    LET k == Cardinality({i \in 1..Len(sorted) : RLe(sorted[i][1], p[1])})
    IN  SubSeq(sorted, 1, k) \o <<p>> \o SubSeq(sorted, k + 1, Len(sorted))

RECURSIVE SortByX(_)
SortByX(ps) ==
    IF Len(ps) <= 1 THEN ps
    ELSE InsertByX(SortByX(SubSeq(ps, 1, Len(ps) - 1)), ps[Len(ps)])

\* scipy interp1d(kind='linear', fill_value='extrapolate') evaluated at x_new
\* for the points ps = <<x, y>>, ... (at least two): searchsorted(side='left')
\* clipped to 1..len-1 picks the segment, whose slope is a float division, so
\* a segment of zero width gives inf or NaN instead of raising.
Interp1d(ps, x_new) ==
    LET sp    == SortByX(ps)
        below == Cardinality({i \in 1..Len(sp) : RLt(sp[i][1], x_new)})
        idx   == IF below < 1 THEN 1
                 ELSE IF below > Len(sp) - 1 THEN Len(sp) - 1 ELSE below
        lo    == sp[idx]
        hi    == sp[idx + 1]
        slope == RDiv(RSub(hi[2], lo[2]), RSub(hi[1], lo[1]))
    IN  RAdd(RMul(slope, RSub(x_new, lo[1])), lo[2])

\* the value array of one channel (lines 254-258)
ChannelValue(point, channel) ==
    IF channel = "gear" THEN Some(RMax(R(1), point.gear))
    ELSE IF channel \in OptionalChannels
         THEN (IF point[channel] = None THEN None ELSE Some(R(point[channel][1])))
         ELSE Some(point[channel])

\* one channel interpolated on the grid (lines 260-276)
InterpolateChannel(lap_data, channel, target_distances) ==
    LET n     == Len(lap_data)
        valid == {i \in 1..n : ~IsNaN(ChannelValue(lap_data[i], channel)[1])
                               /\ ~IsNaN(lap_data[i].distance)}
        order == [k \in 1..Cardinality(valid) |->
                    CHOOSE i \in valid : Cardinality({j \in valid : j < i}) = k - 1]
        ps    == [k \in 1..Cardinality(valid) |->
                    <<lap_data[order[k]].distance,
                      ChannelValue(lap_data[order[k]], channel)[1]>>]
    IN  IF n > 1 /\ Cardinality(valid) > 1
        THEN [g \in 1..Len(target_distances) |-> Interp1d(ps, target_distances[g])]
        ELSE [g \in 1..Len(target_distances) |-> R(0)]

\* np.isnan on an array holding None (dtype object) raises TypeError; the
\* handler of _interpolate_lap_data (lines 280-282) then returns {}
IsnanRaises(lap_data) ==
    /\ Len(lap_data) > 1
    /\ \E i \in 1..Len(lap_data) : \E c \in OptionalChannels : lap_data[i][c] = None

InterpolateLapData(lap_data, target_distances) ==
    IF IsnanRaises(lap_data) THEN EmptyDict
    ELSE [c \in Channels |-> InterpolateChannel(lap_data, c, target_distances)]

AlignByDistance(lap1_data, lap2_data) ==
    LET max_distance1 == IF lap1_data # <<>> THEN lap1_data[Len(lap1_data)].distance ELSE R(0)
        max_distance2 == IF lap2_data # <<>> THEN lap2_data[Len(lap2_data)].distance ELSE R(0)
        min_distance  == RMin(max_distance1, max_distance2)
        common_distances == Arange(min_distance, distance_spacing)
    IN  [distance |-> common_distances,
         driver1  |-> InterpolateLapData(lap1_data, common_distances),
         driver2  |-> InterpolateLapData(lap2_data, common_distances)]

(***************************************************************************)
(* numpy reductions over a non-empty array                                 *)
(***************************************************************************)
HasNaN(a) == \E i \in 1..Len(a) : IsNaN(a[i])

\* np.max / np.min: NaN when the array holds a NaN
NpMax(a) == IF HasNaN(a) THEN NaN
            ELSE a[CHOOSE i \in 1..Len(a) : \A j \in 1..Len(a) : RLe(a[j], a[i])]
NpMin(a) == IF HasNaN(a) THEN NaN
            ELSE a[CHOOSE i \in 1..Len(a) : \A j \in 1..Len(a) : RLe(a[i], a[j])]

\* np.argmax / np.argmin, 0-based: the first NaN, else the first extreme value
FirstIndex(S) == CHOOSE i \in S : \A j \in S : i <= j
NpArgmax(a) ==
    (IF HasNaN(a) THEN FirstIndex({i \in 1..Len(a) : IsNaN(a[i])})
     ELSE FirstIndex({i \in 1..Len(a) : \A j \in 1..Len(a) : RLe(a[j], a[i])})) - 1
NpArgmin(a) ==
    (IF HasNaN(a) THEN FirstIndex({i \in 1..Len(a) : IsNaN(a[i])})
     ELSE FirstIndex({i \in 1..Len(a) : \A j \in 1..Len(a) : RLe(a[i], a[j])})) - 1

RECURSIVE RSum(_)
RSum(a) == IF a = <<>> THEN R(0) ELSE RAdd(RSum(SubSeq(a, 1, Len(a) - 1)), a[Len(a)])
NpMean(a) == RDiv(RSum(a), R(Len(a)))

\* the elements of the index set S, ascending, as a sequence
Ascending(S) ==
    [k \in 1..Cardinality(S) |-> CHOOSE i \in S : Cardinality({j \in S : j < i}) = k - 1]

(***************************************************************************)
(* Delta Analyzer (_calculate_lap_delta_detailed)                          *)
(***************************************************************************)
\* a crossing test that looks at the left grid point only
CrossesAtLeftOnly(cumulative_delta, k) ==
    \/ RGt(cumulative_delta[k], R(0))
    \/ RLt(cumulative_delta[k], R(0))

\* the zero crossing between the 1-based grid points k and k + 1, when the
\* test of lines 509-510 reports one (Python's i is k, the index i-1 is k-1)
CrossesAt(cumulative_delta, k) ==
    \/ RGt(cumulative_delta[k], R(0)) /\ RLe(cumulative_delta[k + 1], R(0))
    \/ RLt(cumulative_delta[k], R(0)) /\ RGe(cumulative_delta[k + 1], R(0))

Crossing(cumulative_delta, distances, k) ==
    [distance |-> RAdd(distances[k],
                       RDiv(RMul(RSub(distances[k + 1], distances[k]),
                                 RAbs(cumulative_delta[k])),
                            RAdd(RAbs(cumulative_delta[k]), RAbs(cumulative_delta[k + 1])))),
     index    |-> k - 1]

ZeroCrossings(cumulative_delta, distances) ==
    LET ks == Ascending({k \in 1..(Len(cumulative_delta) - 1) : CrossesAt(cumulative_delta, k)})
    IN  [j \in 1..Len(ks) |-> Crossing(cumulative_delta, distances, ks[j])]

\* the closed sector membership of the delta analyzer (lines 535-538)
DeltaSectorIndices(distances, sector_start, sector_end) ==
    {i \in 1..Len(distances) : RLe(sector_start, distances[i]) /\ RLe(distances[i], sector_end)}

SectorDelta(cumulative_delta, distances, sector, sector_length) ==
    LET sector_start == RMul(R(sector), sector_length)
        sector_end   == RMul(R(sector + 1), sector_length)
        idx          == Ascending(DeltaSectorIndices(distances, sector_start, sector_end))
        sector_time_gained == RSub(cumulative_delta[idx[Len(idx)]], cumulative_delta[idx[1]])
    IN  [sector |-> sector + 1,
         start_distance |-> sector_start,
         end_distance |-> sector_end,
         time_gained_driver1 |-> sector_time_gained,
         time_gained_driver2 |-> RNeg(sector_time_gained),
         advantage |-> IF RGt(sector_time_gained, R(0)) THEN "driver1" ELSE "driver2"]

SectorDeltas(cumulative_delta, distances) ==
    LET total_distance == IF distances # <<>> THEN distances[Len(distances)] ELSE R(0)
        sector_length  == RDiv(total_distance, R(3))
        present == Ascending({sector + 1 : sector \in
                       {sc \in 0..2 : DeltaSectorIndices(distances,
                                          RMul(R(sc), sector_length),
                                          RMul(R(sc + 1), sector_length)) # {}}})
    IN  [j \in 1..Len(present) |->
            SectorDelta(cumulative_delta, distances, present[j] - 1, sector_length)]

\* the raw delta, not normalised to start at 0
RawDelta(time_delta) == time_delta

\* line 504: normalised to start at 0
CumulativeDelta(time_delta) ==
    [i \in 1..Len(time_delta) |-> RSub(time_delta[i], time_delta[1])]

CalculateLapDeltaDetailed(driver1, driver2, distances) ==
    LET time1 == driver1["time"]
        time2 == driver2["time"]
        time_delta == [i \in 1..Len(time1) |-> RSub(time1[i], time2[i])]
        cumulative_delta == CumulativeDelta(time_delta)
        max_driver1_advantage_idx == NpArgmax(cumulative_delta)
        max_driver2_advantage_idx == NpArgmin(cumulative_delta)
    IN  IF time1 = <<>>
        THEN \* time_delta[0] raises IndexError: the handler of lines 586-593
             [error |-> "Lap delta calculation failed",
              time_delta_array |-> <<>>,
              cumulative_delta_array |-> <<>>,
              distance_array |-> <<>>]
        ELSE [time_delta_array |-> time_delta,
              cumulative_delta_array |-> cumulative_delta,
              distance_array |-> distances,
              time_delta_start |-> time_delta[1],
              time_delta_end |-> time_delta[Len(time_delta)],
              cumulative_delta_final |-> cumulative_delta[Len(cumulative_delta)],
              max_time_gap |-> NpMax([i \in 1..Len(cumulative_delta) |-> RAbs(cumulative_delta[i])]),
              avg_time_delta |-> NpMean(time_delta),
              zero_crossings |-> ZeroCrossings(cumulative_delta, distances),
              max_advantages |->
                 [driver1_max_advantage |->
                     [time_gap |-> cumulative_delta[max_driver1_advantage_idx + 1],
                      distance |-> distances[max_driver1_advantage_idx + 1],
                      index |-> max_driver1_advantage_idx],
                  driver2_max_advantage |->
                     [time_gap |-> RAbs(cumulative_delta[max_driver2_advantage_idx + 1]),
                      distance |-> distances[max_driver2_advantage_idx + 1],
                      index |-> max_driver2_advantage_idx]],
              sector_analysis |-> SectorDeltas(cumulative_delta, distances)]

(***************************************************************************)
(* Comparison metrics and sector analysis of align_sessions                *)
(***************************************************************************)
Diff(a, b) == [i \in 1..Len(a) |-> RSub(a[i], b[i])]

\* {} when a driver's dict or the grid is empty (lines 299-300); the fields
\* kept are those the properties below read
CalculateComparisonMetrics(aligned) ==
    LET driver1 == aligned.driver1
        driver2 == aligned.driver2
        distances == aligned.distance
        speed_diff == Diff(driver1["speed"], driver2["speed"])
        throttle_diff == Diff(driver1["throttle"], driver2["throttle"])
        brake_diff == Diff(driver1["brake"], driver2["brake"])
    IN  IF driver1 = EmptyDict \/ driver2 = EmptyDict \/ distances = <<>>
        THEN EmptyDict
        ELSE [speed_comparison |->
                 [max_speed_advantage_driver1 |-> NpMax(speed_diff),
                  max_speed_advantage_driver2 |-> NpMin(speed_diff),
                  avg_speed_difference |-> NpMean(speed_diff)],
              time_comparison |-> CalculateLapDeltaDetailed(driver1, driver2, distances),
              throttle_comparison |->
                 [avg_throttle_difference |-> NpMean(throttle_diff),
                  more_aggressive_driver |->
                     IF RGt(NpMean(driver1["throttle"]), NpMean(driver2["throttle"]))
                     THEN 1 ELSE 2],
              brake_comparison |->
                 [avg_brake_difference |-> NpMean(brake_diff),
                  later_braker |->
                     IF RLt(NpMean(driver1["brake"]), NpMean(driver2["brake"]))
                     THEN 1 ELSE 2]]

num_sectors == 3

\* the half-open sector membership of _calculate_sector_analysis (394-397)
SectorIndices(distances, sector_start, sector_end) ==
    {i \in 1..Len(distances) : RLe(sector_start, distances[i]) /\ RLt(distances[i], sector_end)}

Pick(a, idx) == [k \in 1..Len(idx) |-> a[idx[k]]]

SectorData(aligned, idx) ==
    LET driver1 == aligned.driver1
        driver2 == aligned.driver2
        has_speed == "speed" \in DOMAIN driver1 /\ "speed" \in DOMAIN driver2
        has_time  == "time" \in DOMAIN driver1 /\ "time" \in DOMAIN driver2
        driver1_sector_speed == NpMean(Pick(driver1["speed"], idx))
        driver2_sector_speed == NpMean(Pick(driver2["speed"], idx))
        driver1_sector_time == RSub(driver1["time"][idx[Len(idx)]], driver1["time"][idx[1]])
        driver2_sector_time == RSub(driver2["time"][idx[Len(idx)]], driver2["time"][idx[1]])
        avg_speed ==
            [driver1 |-> driver1_sector_speed,
             driver2 |-> driver2_sector_speed,
             advantage |-> IF RGt(driver1_sector_speed, driver2_sector_speed)
                           THEN "driver1" ELSE "driver2",
             difference |-> RAbs(RSub(driver1_sector_speed, driver2_sector_speed))]
        sector_time ==
            [driver1 |-> driver1_sector_time,
             driver2 |-> driver2_sector_time,
             advantage |-> IF RLt(driver1_sector_time, driver2_sector_time)
                           THEN "driver1" ELSE "driver2",
             difference |-> RAbs(RSub(driver1_sector_time, driver2_sector_time))]
    IN  [f \in ((IF has_speed THEN {"avg_speed"} ELSE {})
                \cup (IF has_time THEN {"sector_time"} ELSE {})) |->
            IF f = "avg_speed" THEN avg_speed ELSE sector_time]

\* sector number -> sector data; a sector without grid points is skipped
\* (`continue`, lines 399-400), an empty grid gives {}
CalculateSectorAnalysis(aligned) ==
    LET distances == aligned.distance
        total_distance == distances[Len(distances)]
        sector_length == RDiv(total_distance, R(num_sectors))
        Indices(sector) == SectorIndices(distances, RMul(R(sector), sector_length),
                                         RMul(R(sector + 1), sector_length))
    IN  IF distances = <<>> THEN EmptyDict
        ELSE [n \in {sector + 1 : sector \in
                        {sc \in 0..(num_sectors - 1) : Indices(sc) # {}}} |->
                 SectorData(aligned, Ascending(Indices(n - 1)))]

(***************************************************************************)
(* Lap selection                                                           *)
(***************************************************************************)
\* next((lap for lap in laps if lap.lap_number == number), None)
FirstLapNumbered(laps, number) ==
    LET hits == {i \in 1..Len(laps) : laps[i].lap_number = number}
    IN  IF hits = {} THEN None ELSE Some(laps[FirstIndex(hits)])

\* DataAlignmentEngine.align_sessions, lines 35-43
AlignSelectLap(session, use_fastest_laps, specific_lap) ==
    IF specific_lap # None THEN FirstLapNumbered(session.laps, specific_lap[1])
    ELSE IF use_fastest_laps THEN session.fastest_lap
    ELSE IF session.laps # <<>> THEN Some(session.laps[1]) ELSE None

\* DataComparisonEngine._select_lap
SelectLap(session, use_fastest, specific_lap) ==
    IF specific_lap # None THEN FirstLapNumbered(session.laps, specific_lap[1])
    ELSE IF use_fastest /\ session.fastest_lap # None THEN session.fastest_lap
    ELSE IF session.laps # <<>> THEN Some(session.laps[1]) ELSE None

\* the methods DataAlignmentEngine defines (data_alignment.py, lines 14-483)
AlignmentEngineMethods ==
    {"align_sessions", "_calculate_distance_alignment", "_calculate_gps_distance",
     "_align_by_distance", "_interpolate_lap_data", "_calculate_comparison_metrics",
     "_find_advantage_zones", "_calculate_sector_analysis",
     "_calculate_performance_summary", "_calculate_lap_delta_detailed"}

(***************************************************************************)
(* Inputs                                                                  *)
(***************************************************************************)
\* three samples: driving at 54 km/h, standing still, and a sample whose
\* optional fields are all absent
Kinds == {"moving", "stopped", "bare"}

Sample(kind, time) ==
    CASE kind = "moving" ->
            TelemetryDataPoint(time, Some(54), Some(100), Some(0), Some(3), Some(6000),
                               Some(80), Some(90), None, None)
      [] kind = "stopped" ->
            TelemetryDataPoint(time, Some(0), Some(0), Some(60), Some(1), Some(1000),
                               Some(80), Some(90), None, None)
      [] kind = "bare" ->
            TelemetryDataPoint(time, None, None, None, None, None, None, None, None, None)
      [] kind = "silent" ->
            TelemetryDataPoint(time, None, None, None, Some(2), None,
                               Some(80), Some(90), None, None)

\* a lap sampled every SampleInterval seconds from start_time on
GeneratedLap(lap_number, start_time, kinds, is_fastest) ==
    LapData(lap_number, SampleInterval * Len(kinds),
            [i \in 1..Len(kinds) |-> Sample(kinds[i], start_time + (i - 1) * SampleInterval)],
            is_fastest)

KindSeqs == UNION {[1..n -> Kinds] : n \in 0..MaxSamples}

\* content requests: each session holds one lap, marked fastest
ContentSession(name, kinds) ==
    LET lap == GeneratedLap(1, 0, kinds, TRUE)
    IN  SessionData(name, <<lap>>, Some(lap))

ContentRequests ==
    {[session1 |-> ContentSession("Driver A", k1),
      session2 |-> ContentSession("Driver B", k2),
      use_fastest_laps |-> TRUE,
      specific_lap1 |-> None,
      specific_lap2 |-> None] : k1 \in KindSeqs, k2 \in KindSeqs}

\* selection requests: sessions of 0..MaxLaps laps numbered upwards from 1 or
\* downwards from n + 1, none or one of them marked fastest; lap k starts at
\* second k and drives at 54 km/h
Numberings(n) == {[i \in 1..n |-> i], [i \in 1..n |-> n + 2 - i]}

SelectionSession(name, numbers, fastest) ==
    LET laps == [i \in 1..Len(numbers) |->
                    GeneratedLap(numbers[i], numbers[i],
                                 <<"moving", "moving">>, fastest = i)]
    IN  SessionData(name, laps, IF fastest = 0 THEN None ELSE Some(laps[fastest]))

SelectionSessions(name) ==
    UNION {{SelectionSession(name, numbers, fastest) : fastest \in 0..Len(numbers)} :
              numbers \in UNION {Numberings(n) : n \in 0..MaxLaps}}

LapRequests == {None, Some(1), Some(3)}

SelectionRequests ==
    {[session1 |-> s1, session2 |-> s2, use_fastest_laps |-> u,
      specific_lap1 |-> n1, specific_lap2 |-> n2] :
        s1 \in SelectionSessions("Driver A"), s2 \in SelectionSessions("Driver B"),
        u \in BOOLEAN, n1 \in LapRequests, n2 \in LapRequests}

Requests == ContentRequests \cup SelectionRequests

(***************************************************************************)
(* RateLimiter (middleware/auth.py): pure parts                            *)
(***************************************************************************)
cleanup_interval == 300

\* RateLimiter.__init__; the clock reads 0 when the limiter is constructed
NewRateLimiter == [requests |-> EmptyDict, last_cleanup |-> 0]

\* a window test that lets a request go one second early
InsideWindowEarly(req, cutoff_time) == req[1] > cutoff_time + 1

\* req[0] > cutoff_time (lines 181 and 196)
InsideWindow(req, cutoff_time) == req[1] > cutoff_time

Filter(reqs, cutoff_time) == SelectSeq(reqs, LAMBDA req : InsideWindow(req, cutoff_time))

\* RateLimiter._cleanup: every history is filtered, empty ones are deleted
Cleanup(requests, current_time, window) ==
    LET kept == {c \in DOMAIN requests : Filter(requests[c], current_time - window) # <<>>}
    IN  [c \in kept |-> Filter(requests[c], current_time - window)]

\* RateLimiter.is_allowed: the pair of the answer and the limiter afterwards
is_allowed(limiter, current_time, client_id, max, window) ==
    LET cleaning == current_time - limiter.last_cleanup > cleanup_interval
        cleaned == IF cleaning THEN Cleanup(limiter.requests, current_time, window)
                   ELSE limiter.requests
        last_cleanup == IF cleaning THEN current_time ELSE limiter.last_cleanup
        history == IF client_id \in DOMAIN cleaned THEN cleaned[client_id] ELSE <<>>
        client_requests == Filter(history, current_time - window)
        allowed == ~(Len(client_requests) >= max)
        stored == IF allowed THEN Append(client_requests, <<current_time, 1>>)
                  ELSE client_requests
    IN  <<allowed,
          [requests |-> [c \in DOMAIN cleaned \cup {client_id} |->
                            IF c = client_id THEN stored ELSE cleaned[c]],
           last_cleanup |-> last_cleanup]>>

(***************************************************************************)
(* State: one call of an entry point and its local variables               *)
(***************************************************************************)
VARIABLES
    entry,                  \* the function called
    request,                \* its arguments
    pc,                     \* the statement the call is at
    lap1, lap2,             \* the selected laps (None when not found)
    lap1_distance_aligned,  \* _calculate_distance_alignment(lap1)
    lap2_distance_aligned,
    aligned_data,           \* _align_by_distance(...)
    comparison_metrics,     \* _calculate_comparison_metrics(aligned_data)
    sector_analysis,        \* _calculate_sector_analysis(aligned_data)
    result,                 \* the value returned, None before the return
    raised,                 \* the exception that left the call, None if none
    cache,                  \* the comparison cache: key -> stored result
    rate_limiter            \* the global RateLimiter: its requests and last_cleanup

vars == <<entry, request, pc, lap1, lap2, lap1_distance_aligned,
          lap2_distance_aligned, aligned_data, comparison_metrics,
          sector_analysis, result, raised, cache, rate_limiter>>

locals == <<lap1, lap2, lap1_distance_aligned, lap2_distance_aligned,
            aligned_data, comparison_metrics, sector_analysis>>

Call(fn, args) ==
    /\ entry = fn
    /\ request = args
    /\ pc = "start"
    /\ lap1 = None
    /\ lap2 = None
    /\ lap1_distance_aligned = None
    /\ lap2_distance_aligned = None
    /\ aligned_data = None
    /\ comparison_metrics = None
    /\ sector_analysis = None
    /\ result = None
    /\ raised = None
    /\ cache = EmptyDict
    /\ rate_limiter = NewRateLimiter

Init ==
    \E fn \in {"align_sessions", "compare_sessions"} :
        \E args \in Requests : Call(fn, args)

Return(value) ==
    /\ result' = Some(value)
    /\ pc' = "done"
    /\ UNCHANGED <<entry, request, raised, cache, rate_limiter>>

Raise(exception) ==
    /\ raised' = Some(exception)
    /\ pc' = "done"
    /\ UNCHANGED <<entry, request, result, cache, rate_limiter>>

Goto(label) ==
    /\ pc' = label
    /\ UNCHANGED <<entry, request, result, raised, cache, rate_limiter>>

(***************************************************************************)
(* DataAlignmentEngine.align_sessions                                      *)
(***************************************************************************)
\* lines 35-51
AlignSelectLaps ==
    /\ entry = "align_sessions"
    /\ pc = "start"
    /\ LET l1 == AlignSelectLap(request.session1, request.use_fastest_laps,
                                request.specific_lap1)
           l2 == AlignSelectLap(request.session2, request.use_fastest_laps,
                                request.specific_lap2)
       IN  /\ lap1' = l1
           /\ lap2' = l2
           /\ IF l1 = None \/ l2 = None
              THEN Return([success |-> FALSE,
                           error |-> "Required laps not found in session data",
                           lap1_available |-> l1 # None,
                           lap2_available |-> l2 # None])
              ELSE Goto("distance1")
    /\ UNCHANGED <<lap1_distance_aligned, lap2_distance_aligned, aligned_data,
                   comparison_metrics, sector_analysis>>

\* line 54
AlignDistanceLap1 ==
    /\ entry = "align_sessions"
    /\ pc = "distance1"
    /\ lap1_distance_aligned' = CalculateDistanceAlignment(lap1[1])
    /\ Goto("distance2")
    /\ UNCHANGED <<lap1, lap2, lap2_distance_aligned, aligned_data,
                   comparison_metrics, sector_analysis>>

\* lines 55-61
AlignDistanceLap2 ==
    /\ entry = "align_sessions"
    /\ pc = "distance2"
    /\ LET d2 == CalculateDistanceAlignment(lap2[1])
       IN  /\ lap2_distance_aligned' = d2
           /\ IF lap1_distance_aligned = None \/ d2 = None
              THEN Return([success |-> FALSE,
                           error |-> "Failed to calculate distance alignment for laps"])
              ELSE Goto("align")
    /\ UNCHANGED <<lap1, lap2, lap1_distance_aligned, aligned_data,
                   comparison_metrics, sector_analysis>>

\* line 64
AlignByDistanceStep ==
    /\ entry = "align_sessions"
    /\ pc = "align"
    /\ aligned_data' = Some(AlignByDistance(lap1_distance_aligned[1],
                                            lap2_distance_aligned[1]))
    /\ Goto("metrics")
    /\ UNCHANGED <<lap1, lap2, lap1_distance_aligned, lap2_distance_aligned,
                   comparison_metrics, sector_analysis>>

\* line 67
AlignMetrics ==
    /\ entry = "align_sessions"
    /\ pc = "metrics"
    /\ comparison_metrics' = Some(CalculateComparisonMetrics(aligned_data[1]))
    /\ Goto("sectors")
    /\ UNCHANGED <<lap1, lap2, lap1_distance_aligned, lap2_distance_aligned,
                   aligned_data, sector_analysis>>

\* line 70
AlignSectors ==
    /\ entry = "align_sessions"
    /\ pc = "sectors"
    /\ sector_analysis' = Some(CalculateSectorAnalysis(aligned_data[1]))
    /\ Goto("assemble")
    /\ UNCHANGED <<lap1, lap2, lap1_distance_aligned, lap2_distance_aligned,
                   aligned_data, comparison_metrics>>

\* driver_name is set in every session of the model, so `or "Driver 1"` is idle
LapInfo(session, lap) ==
    [name |-> session.driver_name, lap_number |-> lap.lap_number,
     lap_time |-> lap.lap_time, is_fastest |-> lap.is_fastest]

\* lines 72-94
AlignAssemble ==
    /\ entry = "align_sessions"
    /\ pc = "assemble"
    /\ LET distances == aligned_data[1].distance
       IN  Return([success |-> TRUE,
                   driver1 |-> LapInfo(request.session1, lap1[1]),
                   driver2 |-> LapInfo(request.session2, lap2[1]),
                   aligned_data |-> aligned_data[1],
                   comparison_metrics |-> comparison_metrics[1],
                   sector_analysis |-> sector_analysis[1],
                   alignment_info |->
                      [total_distance |-> IF distances # <<>>
                                          THEN distances[Len(distances)] ELSE R(0),
                       data_points |-> Len(distances),
                       interpolation_spacing |-> 10]])
    /\ UNCHANGED locals

(***************************************************************************)
(* DataComparisonEngine.compare_sessions                                   *)
(***************************************************************************)
\* lines 421-425: a lap that does not resolve raises ValueError, which the
\* handler of lines 479-481 logs and raises again
CompareSelectLaps ==
    /\ entry = "compare_sessions"
    /\ pc = "start"
    /\ LET l1 == SelectLap(request.session1, request.use_fastest_laps,
                           request.specific_lap1)
           l2 == SelectLap(request.session2, request.use_fastest_laps,
                           request.specific_lap2)
       IN  /\ lap1' = l1
           /\ lap2' = l2
           /\ IF l1 = None \/ l2 = None
              THEN Raise("ValueError")
              ELSE Goto("align_laps")
    /\ UNCHANGED <<lap1_distance_aligned, lap2_distance_aligned, aligned_data,
                   comparison_metrics, sector_analysis>>

\* line 428: self.alignment_engine.align_laps(lap1, lap2); DataAlignmentEngine
\* defines no align_laps, so the attribute lookup raises AttributeError, which
\* the handler of lines 479-481 logs and raises again
CompareAlignLaps ==
    /\ entry = "compare_sessions"
    /\ pc = "align_laps"
    /\ "align_laps" \notin AlignmentEngineMethods
    /\ Raise("AttributeError")
    /\ UNCHANGED locals

Next ==
    \/ AlignSelectLaps
    \/ AlignDistanceLap1
    \/ AlignDistanceLap2
    \/ AlignByDistanceStep
    \/ AlignMetrics
    \/ AlignSectors
    \/ AlignAssemble
    \/ CompareSelectLaps
    \/ CompareAlignLaps

Spec == Init /\ [][Next]_vars

(***************************************************************************)
(* Direct calls of the Distance Estimator, as the tests make them          *)
(* (test_alignment_engine.py, test_lap_distance_alignment)                 *)
(***************************************************************************)
\* sample times move one second forwards or backwards per sample
TimeSeqs(n) ==
    {t \in [1..n -> 0..(2 * n)] :
        n > 0 => /\ t[1] = n
                 /\ \A i \in 2..n : t[i] - t[i - 1] \in {1, -1}}

\* speed in km/h: absent, driving, or a negative reading
DistanceSpeeds == {None, Some(54), Some(-18)}
\* latitude in micro-radians: absent, on the equator, or one of two positions
DistanceLatitudes == {None, Some(0), Some(1), Some(3)}
GpsLongitude == Some(2)

DistanceLap(t, sp, lat) ==
    LapData(1, Len(t),
            [i \in 1..Len(t) |->
                TelemetryDataPoint(t[i], sp[i], None, None, None, None, None, None,
                                   lat[i], IF lat[i] = None THEN None ELSE GpsLongitude)],
            TRUE)

InitDistance ==
    \E n \in 0..MaxSamples :
        \E t \in TimeSeqs(n) :
            \E sp \in [1..n -> DistanceSpeeds] :
                \E lat \in [1..n -> DistanceLatitudes] :
                    Call("_calculate_distance_alignment", [lap |-> DistanceLap(t, sp, lat)])

DistanceCall ==
    /\ entry = "_calculate_distance_alignment"
    /\ pc = "start"
    /\ Return(CalculateDistanceAlignment(request.lap))
    /\ UNCHANGED locals

NextDistance == DistanceCall

SpecDistance == InitDistance /\ [][NextDistance]_vars

(***************************************************************************)
(* Direct calls of the Delta Analyzer on aligned time arrays               *)
(***************************************************************************)
TimeValues == {R(v) : v \in 0..MaxTimeValue}

Grid(n) == [i \in 1..n |-> R((i - 1) * distance_spacing)]

InitDelta ==
    \E n \in 0..MaxGrid :
        \E time1 \in [1..n -> TimeValues \cup {NaN}] :
            \E time2 \in [1..n -> TimeValues] :
                Call("_calculate_lap_delta_detailed",
                     [driver1 |-> [time |-> time1], driver2 |-> [time |-> time2],
                      distances |-> Grid(n)])

DeltaCall ==
    /\ entry = "_calculate_lap_delta_detailed"
    /\ pc = "start"
    /\ Return(CalculateLapDeltaDetailed(request.driver1, request.driver2,
                                        request.distances))
    /\ UNCHANGED locals

NextDelta == DeltaCall

SpecDelta == InitDelta /\ [][NextDelta]_vars

(***************************************************************************)
(* The point classifiers and the sector boundaries of comparison_engine.py *)
(***************************************************************************)
full_throttle_threshold == 95
braking_threshold == 5
trail_braking_threshold == 15
coasting_threshold == 5

\* a classifier that tests the brake before the throttle
ClassifyActionBrakeFirst(throttle, brake) ==
    IF RGe(brake, R(braking_threshold))
    THEN (IF RGe(throttle, R(trail_braking_threshold)) THEN "TRAIL_BRAKING" ELSE "BRAKING")
    ELSE IF RGe(throttle, R(full_throttle_threshold)) THEN "FULL_THROTTLE"
    ELSE IF RLe(throttle, R(coasting_threshold)) /\ RLe(brake, R(coasting_threshold))
         THEN "COASTING"
    ELSE "PARTIAL_THROTTLE"

\* DriverActionClassifier.classify_action
classify_action(throttle, brake) ==
    IF RGe(throttle, R(full_throttle_threshold)) THEN "FULL_THROTTLE"
    ELSE IF RGe(brake, R(braking_threshold))
         THEN (IF RGe(throttle, R(trail_braking_threshold)) THEN "TRAIL_BRAKING"
               ELSE "BRAKING")
    ELSE IF RLe(throttle, R(coasting_threshold)) /\ RLe(brake, R(coasting_threshold))
         THEN "COASTING"
    ELSE "PARTIAL_THROTTLE"

neutral_threshold == Rat(1, 10)
correction_threshold == 10

\* VehicleDynamicsAnalyzer.classify_dynamics; steering_rate is Optional and
\* `if steering_rate and ...` skips None and 0 alike
classify_dynamics(lateral_accel, steering_angle, speed, steering_rate) ==
    IF /\ steering_rate # None
       /\ steering_rate[1] # R(0)
       /\ RGt(RAbs(steering_rate[1]), R(correction_threshold))
    THEN "CORRECTION"
    ELSE IF RLt(speed, R(50)) THEN "NEUTRAL"
    ELSE IF RGt(speed, R(0)) /\ steering_angle # R(0)
    THEN LET expected_lateral == RDiv(RMul(RMul(speed, speed), RAbs(steering_angle)), R(1000))
             lateral_error == RSub(RAbs(lateral_accel), expected_lateral)
         IN  IF RLt(RAbs(lateral_error), neutral_threshold) THEN "NEUTRAL"
             ELSE IF RGt(lateral_error, neutral_threshold) THEN "UNDERSTEER"
             ELSE "OVERSTEER"
    ELSE "NEUTRAL"

\* sector boundaries with a whole-number sector length
CreateSectorsWholeLength(total_distance, n) ==
    LET sector_length == R(RFloor(RDiv(total_distance, R(n))))
    IN  [k \in 1..n |-> <<RMul(R(k - 1), sector_length), RMul(R(k), sector_length)>>]

\* TrackSectorAnalyzer.create_sectors for an analyzer of n sectors: the list
\* of (start, end) tuples. The arithmetic is exact, float rounding is not
\* modelled.
create_sectors(total_distance, n) ==
    LET sector_length == RDiv(total_distance, R(n))
    IN  [k \in 1..n |-> <<RMul(R(k - 1), sector_length), RMul(R(k), sector_length)>>]

\* inputs: pedal positions in steps of half a percent
PedalValues == {Rat(k, 2) : k \in 0..(2 * MaxPedal)}

LateralAccels == {Rat(k, 10) : k \in {-3, 0, 1, 2, 5}}
SteeringAngles == {R(0), Rat(1, 25), R(5), R(8), R(10)}
Speeds == {R(0), R(40), R(50), R(100), R(120), R(150)}
SteeringRates == {None, Some(R(0)), Some(R(5)), Some(R(10)), Some(R(15)), Some(R(-15))}

TotalDistances == {R(0), R(10), Rat(25, 2), R(3000)}

InitAnalyzers ==
    \/ \E throttle \in PedalValues : \E brake \in PedalValues :
          Call("classify_action", [throttle |-> throttle, brake |-> brake])
    \/ \E lateral_accel \in LateralAccels : \E steering_angle \in SteeringAngles :
          \E speed \in Speeds : \E steering_rate \in SteeringRates :
              Call("classify_dynamics",
                   [lateral_accel |-> lateral_accel, steering_angle |-> steering_angle,
                    speed |-> speed, steering_rate |-> steering_rate])
    \/ \E total_distance \in TotalDistances : \E n \in 1..MaxSectors :
          Call("create_sectors", [total_distance |-> total_distance, num_sectors |-> n])

ClassifyActionCall ==
    /\ entry = "classify_action"
    /\ pc = "start"
    /\ Return(classify_action(request.throttle, request.brake))
    /\ UNCHANGED locals

ClassifyDynamicsCall ==
    /\ entry = "classify_dynamics"
    /\ pc = "start"
    /\ Return(classify_dynamics(request.lateral_accel, request.steering_angle,
                                request.speed, request.steering_rate))
    /\ UNCHANGED locals

CreateSectorsCall ==
    /\ entry = "create_sectors"
    /\ pc = "start"
    /\ Return(create_sectors(request.total_distance, request.num_sectors))
    /\ UNCHANGED locals

NextAnalyzers ==
    \/ ClassifyActionCall
    \/ ClassifyDynamicsCall
    \/ CreateSectorsCall

SpecAnalyzers == InitAnalyzers /\ [][NextAnalyzers]_vars

(***************************************************************************)
(* Direct calls of _interpolate_lap_data on a distance-tagged lap, as in   *)
(* test_data_interpolation                                                 *)
(***************************************************************************)
\* "silent": speed, throttle, brake and rpm absent, gear and temperatures set
InterpolationKinds == {"moving", "stopped", "silent"}

\* the stop values of the target grids np.arange(0, stop, 10)
TargetStops == {0, 20, 40}

InitInterpolate ==
    \E n \in 1..MaxSamples :
        \E kinds \in [1..n -> InterpolationKinds] :
            \E stop \in TargetStops :
                Call("_interpolate_lap_data",
                     [lap |-> GeneratedLap(1, 0, kinds, TRUE),
                      target_distances |-> Arange(R(stop), distance_spacing)])

\* aligned_points = engine._calculate_distance_alignment(lap)
InterpolateDistance ==
    /\ entry = "_interpolate_lap_data"
    /\ pc = "start"
    /\ lap1_distance_aligned' = CalculateDistanceAlignment(request.lap)
    /\ Goto("interpolate")
    /\ UNCHANGED <<lap1, lap2, lap2_distance_aligned, aligned_data,
                   comparison_metrics, sector_analysis>>

\* engine._interpolate_lap_data(aligned_points, target_distances)
InterpolateCall ==
    /\ entry = "_interpolate_lap_data"
    /\ pc = "interpolate"
    /\ Return(InterpolateLapData(lap1_distance_aligned[1], request.target_distances))
    /\ UNCHANGED locals

NextInterpolate ==
    \/ InterpolateDistance
    \/ InterpolateCall

SpecInterpolate == InitInterpolate /\ [][NextInterpolate]_vars

(***************************************************************************)
(* The comparison cache (CacheManager, compare_stored_sessions)            *)
(***************************************************************************)
\* str(n) of a natural number, one string per decimal digit
Digit(d) == <<"0", "1", "2", "3", "4", "5", "6", "7", "8", "9">>[d + 1]

RECURSIVE Str(_)
Str(n) == IF n < 10 THEN <<Digit(n)>> ELSE Str(n \div 10) \o <<Digit(n % 10)>>

\* CacheManager.get_comparison_cache_key: the f-string, as a sequence of its
\* literal pieces and digits
get_comparison_cache_key(session1_id, session2_id, lap1_number, lap2_number) ==
    LET lap_key == IF lap1_number # None /\ lap2_number # None
                   THEN <<"_">> \o Str(lap1_number[1]) \o <<"_">> \o Str(lap2_number[1])
                   ELSE <<"_fastest">>
    IN  <<"comparison:">> \o Str(session1_id) \o <<":">> \o Str(session2_id) \o lap_key

Session1Ids == 1..MaxSession1Id
Session2Ids == 1..MaxSession2Id
CacheLaps == {None, Some(3)}

\* what compare_sessions_detailed returns for the stored sessions and the lap
\* selection, kept as the identity of the comparison it computed
ComparisonOf(session1_id, session2_id, lap1_number, lap2_number) ==
    [success |-> TRUE,
     computed_for |-> <<session1_id, session2_id, lap1_number, lap2_number>>,
     use_fastest_laps |-> (lap1_number = None /\ lap2_number = None)]

InitCache ==
    /\ entry = "compare_stored_sessions"
    /\ request = None
    /\ pc = "idle"
    /\ lap1 = None
    /\ lap2 = None
    /\ lap1_distance_aligned = None
    /\ lap2_distance_aligned = None
    /\ aligned_data = None
    /\ comparison_metrics = None
    /\ sector_analysis = None
    /\ result = None
    /\ raised = None
    /\ cache = EmptyDict
    /\ rate_limiter = NewRateLimiter

\* one request of compare_stored_sessions (lines 237-307); `succeeds` is
\* whether both sessions are stored and their comparison succeeds
CompareStoredSessions ==
    /\ entry = "compare_stored_sessions"
    /\ \E session1_id \in Session1Ids, session2_id \in Session2Ids,
          lap1_number \in CacheLaps, lap2_number \in CacheLaps,
          use_cache \in BOOLEAN, succeeds \in BOOLEAN :
          LET cache_key == get_comparison_cache_key(session1_id, session2_id,
                                                    lap1_number, lap2_number)
              comparison_result == ComparisonOf(session1_id, session2_id,
                                                lap1_number, lap2_number)
          IN  /\ request' = Some([session1_id |-> session1_id, session2_id |-> session2_id,
                                  lap1_number |-> lap1_number, lap2_number |-> lap2_number,
                                  use_cache |-> use_cache])
              /\ IF use_cache /\ cache_key \in DOMAIN cache
                 THEN /\ result' = Some([comparison |-> cache[cache_key], source |-> "cache"])
                      /\ raised' = None
                      /\ cache' = cache
                 ELSE IF ~succeeds
                 THEN /\ result' = None
                      /\ raised' = Some("HTTPException")
                      /\ cache' = cache
                 ELSE /\ result' = Some([comparison |-> comparison_result,
                                         source |-> "computed"])
                      /\ raised' = None
                      /\ cache' = [k \in DOMAIN cache \cup {cache_key} |->
                                      IF k = cache_key THEN comparison_result ELSE cache[k]]
    /\ UNCHANGED <<entry, pc, rate_limiter>>
    /\ UNCHANGED locals

\* an entry reaches its time to live (setex, database.py:280-288)
CacheExpire ==
    /\ entry = "compare_stored_sessions"
    /\ \E key \in DOMAIN cache :
          cache' = [k \in DOMAIN cache \ {key} |-> cache[k]]
    /\ UNCHANGED <<entry, request, pc, result, raised, rate_limiter>>
    /\ UNCHANGED locals

NextCache ==
    \/ CompareStoredSessions
    \/ CacheExpire

SpecCache == InitCache /\ [][NextCache]_vars

(***************************************************************************)
(* Concurrent invocations on the one shared processor                      *)
(* (routers/comparison.py:25: processor = TelemetryProcessor())            *)
(***************************************************************************)
Invocations == 1..MaxInvocations

\* the local variables of one invocation before its first statement
NewFrame ==
    [pc |-> "start", lap1 |-> None, lap2 |-> None,
     lap1_distance_aligned |-> None, lap2_distance_aligned |-> None,
     aligned_data |-> None, comparison_metrics |-> None, sector_analysis |-> None,
     result |-> None, raised |-> None]

\* one stage of align_sessions on the frame f of an invocation (lines 33-94)
AlignSessionsStage(args, f) ==
    CASE f.pc = "start" ->
            LET l1 == AlignSelectLap(args.session1, args.use_fastest_laps, args.specific_lap1)
                l2 == AlignSelectLap(args.session2, args.use_fastest_laps, args.specific_lap2)
            IN  IF l1 = None \/ l2 = None
                THEN [f EXCEPT !.lap1 = l1, !.lap2 = l2, !.pc = "done",
                               !.result = Some([success |-> FALSE,
                                   error |-> "Required laps not found in session data",
                                   lap1_available |-> l1 # None,
                                   lap2_available |-> l2 # None])]
                ELSE [f EXCEPT !.lap1 = l1, !.lap2 = l2, !.pc = "distance1"]
      [] f.pc = "distance1" ->
            [f EXCEPT !.lap1_distance_aligned = CalculateDistanceAlignment(f.lap1[1]),
                      !.pc = "distance2"]
      [] f.pc = "distance2" ->
            LET d2 == CalculateDistanceAlignment(f.lap2[1])
            IN  IF f.lap1_distance_aligned = None \/ d2 = None
                THEN [f EXCEPT !.lap2_distance_aligned = d2, !.pc = "done",
                               !.result = Some([success |-> FALSE,
                                   error |-> "Failed to calculate distance alignment for laps"])]
                ELSE [f EXCEPT !.lap2_distance_aligned = d2, !.pc = "align"]
      [] f.pc = "align" ->
            [f EXCEPT !.aligned_data = Some(AlignByDistance(f.lap1_distance_aligned[1],
                                                            f.lap2_distance_aligned[1])),
                      !.pc = "metrics"]
      [] f.pc = "metrics" ->
            [f EXCEPT !.comparison_metrics = Some(CalculateComparisonMetrics(f.aligned_data[1])),
                      !.pc = "sectors"]
      [] f.pc = "sectors" ->
            [f EXCEPT !.sector_analysis = Some(CalculateSectorAnalysis(f.aligned_data[1])),
                      !.pc = "assemble"]
      [] f.pc = "assemble" ->
            LET distances == f.aligned_data[1].distance
            IN  [f EXCEPT !.pc = "done",
                          !.result = Some([success |-> TRUE,
                              driver1 |-> LapInfo(args.session1, f.lap1[1]),
                              driver2 |-> LapInfo(args.session2, f.lap2[1]),
                              aligned_data |-> f.aligned_data[1],
                              comparison_metrics |-> f.comparison_metrics[1],
                              sector_analysis |-> f.sector_analysis[1],
                              alignment_info |->
                                 [total_distance |-> IF distances # <<>>
                                                     THEN distances[Len(distances)] ELSE R(0),
                                  data_points |-> Len(distances),
                                  interpolation_spacing |-> 10]])]

\* one stage of compare_sessions (lines 419-428 and the handler of 479-481)
CompareSessionsStage(args, f) ==
    CASE f.pc = "start" ->
            LET l1 == SelectLap(args.session1, args.use_fastest_laps, args.specific_lap1)
                l2 == SelectLap(args.session2, args.use_fastest_laps, args.specific_lap2)
            IN  IF l1 = None \/ l2 = None
                THEN [f EXCEPT !.lap1 = l1, !.lap2 = l2, !.pc = "done",
                               !.raised = Some("ValueError")]
                ELSE [f EXCEPT !.lap1 = l1, !.lap2 = l2, !.pc = "align_laps"]
      [] f.pc = "align_laps" ->
            [f EXCEPT !.pc = "done", !.raised = Some("AttributeError")]

Stage(call, f) ==
    IF call.fn = "align_sessions" THEN AlignSessionsStage(call.args, f)
    ELSE CompareSessionsStage(call.args, f)

\* the frame an invocation ends in when nothing else runs
RECURSIVE RunAlone(_, _)
RunAlone(call, f) == IF f.pc = "done" THEN f ELSE RunAlone(call, Stage(call, f))

\* a local kept as an attribute of the shared engine: every invocation sees
\* the last value assigned
StoreAttribute(variable, i, value) == [j \in Invocations |-> value]

\* a local variable of invocation i is assigned
StoreLocal(variable, i, value) == [variable EXCEPT ![i] = value]

ConcurrentKinds == {<<"moving", "moving", "moving">>, <<"moving", "stopped">>, <<>>}

ConcurrentArgs ==
    {[session1 |-> ContentSession("Driver A", k1),
      session2 |-> ContentSession("Driver B", k2),
      use_fastest_laps |-> TRUE, specific_lap1 |-> None, specific_lap2 |-> None] :
        k1 \in ConcurrentKinds, k2 \in ConcurrentKinds}
    \cup {[session1 |-> SessionData("Driver A", <<>>, None),
           session2 |-> ContentSession("Driver B", <<"moving", "moving">>),
           use_fastest_laps |-> TRUE, specific_lap1 |-> None, specific_lap2 |-> None]}

ConcurrentCalls ==
    {[fn |-> fn, args |-> args] :
        fn \in {"align_sessions", "compare_sessions"}, args \in ConcurrentArgs}

InitConcurrent ==
    /\ entry = "processor"
    /\ request = [i \in Invocations |-> None]
    /\ pc = [i \in Invocations |-> "idle"]
    /\ lap1 = [i \in Invocations |-> None]
    /\ lap2 = [i \in Invocations |-> None]
    /\ lap1_distance_aligned = [i \in Invocations |-> None]
    /\ lap2_distance_aligned = [i \in Invocations |-> None]
    /\ aligned_data = [i \in Invocations |-> None]
    /\ comparison_metrics = [i \in Invocations |-> None]
    /\ sector_analysis = [i \in Invocations |-> None]
    /\ result = [i \in Invocations |-> None]
    /\ raised = [i \in Invocations |-> None]
    /\ cache = EmptyDict
    /\ rate_limiter = NewRateLimiter

\* the local variables of invocation i
Frame(i) ==
    [pc |-> pc[i], lap1 |-> lap1[i], lap2 |-> lap2[i],
     lap1_distance_aligned |-> lap1_distance_aligned[i],
     lap2_distance_aligned |-> lap2_distance_aligned[i],
     aligned_data |-> aligned_data[i], comparison_metrics |-> comparison_metrics[i],
     sector_analysis |-> sector_analysis[i], result |-> result[i], raised |-> raised[i]]

\* a request arrives: invocation i is called with its own arguments
Invoke(i) ==
    /\ entry = "processor"
    /\ pc[i] = "idle"
    /\ \E call \in ConcurrentCalls : request' = [request EXCEPT ![i] = Some(call)]
    /\ pc' = [pc EXCEPT ![i] = "start"]
    /\ UNCHANGED <<entry, result, raised, cache, rate_limiter>>
    /\ UNCHANGED locals

\* invocation i runs its next stage
RunStage(i) ==
    /\ entry = "processor"
    /\ pc[i] \notin {"idle", "done"}
    /\ LET f == Stage(request[i][1], Frame(i))
       IN  /\ pc' = [pc EXCEPT ![i] = f.pc]
           /\ lap1' = StoreLocal(lap1, i, f.lap1)
           /\ lap2' = StoreLocal(lap2, i, f.lap2)
           /\ lap1_distance_aligned' = StoreLocal(lap1_distance_aligned, i, f.lap1_distance_aligned)
           /\ lap2_distance_aligned' = StoreLocal(lap2_distance_aligned, i, f.lap2_distance_aligned)
           /\ aligned_data' = StoreLocal(aligned_data, i, f.aligned_data)
           /\ comparison_metrics' = StoreLocal(comparison_metrics, i, f.comparison_metrics)
           /\ sector_analysis' = StoreLocal(sector_analysis, i, f.sector_analysis)
           /\ result' = [result EXCEPT ![i] = f.result]
           /\ raised' = [raised EXCEPT ![i] = f.raised]
    /\ UNCHANGED <<entry, request, cache, rate_limiter>>

NextConcurrent == \E i \in Invocations : Invoke(i) \/ RunStage(i)

SpecConcurrent == InitConcurrent /\ [][NextConcurrent]_vars

(***************************************************************************)
(* TrackSectorAnalyzer.analyze_sector on a sequence of ComparisonPoints    *)
(***************************************************************************)
\* the ComparisonPoint of _create_comparison_points (lines 529-531, 553-569);
\* the fields kept are those analyze_sector's times and speed figures read
ComparisonPoint(distance, speed1, speed2) ==
    [distance |-> distance,
     speed_delta |-> RSub(speed1, speed2),
     driver1_speed |-> speed1,
     driver2_speed |-> speed2]

\* the closed filter of lines 303-306, as 1-based indices
SectorPointIndices(points, start_dist, end_dist) ==
    {i \in 1..Len(points) :
        RLe(start_dist, points[i].distance) /\ RLe(points[i].distance, end_dist)}

\* p.distance / (speed / 3.6) for the points with positive speed (lines 329-333)
SectorTime(sector_points, speed_field) ==
    LET positive == Ascending({i \in 1..Len(sector_points) :
                                  RGt(sector_points[i][speed_field], R(0))})
    IN  RSum([k \in 1..Len(positive) |->
                RDiv(sector_points[positive[k]].distance,
                     RDiv(sector_points[positive[k]][speed_field], Rat(36, 10)))])

analyze_sector(sector_num, start_dist, end_dist, points, driver1_name, driver2_name) ==
    LET idx == Ascending(SectorPointIndices(points, start_dist, end_dist))
        sector_points == [k \in 1..Len(idx) |-> points[idx[k]]]
        driver1_sector_time == SectorTime(sector_points, "driver1_speed")
        driver2_sector_time == SectorTime(sector_points, "driver2_speed")
        time_difference == RSub(driver1_sector_time, driver2_sector_time)
        speed_deltas == [k \in 1..Len(sector_points) |-> sector_points[k].speed_delta]
        driver1_advantage_points ==
            Cardinality({k \in 1..Len(sector_points) :
                            RLt(sector_points[k].speed_delta, R(0))})
    IN  IF sector_points = <<>>
        THEN [sector_number |-> sector_num,
              start_distance |-> start_dist,
              end_distance |-> end_dist,
              driver1_sector_time |-> R(0),
              driver2_sector_time |-> R(0),
              time_difference |-> R(0),
              dominant_driver |-> "unknown",
              max_speed_delta |-> R(0),
              avg_speed_delta |-> R(0),
              speed_advantage_distance |-> R(0)]
        ELSE [sector_number |-> sector_num,
              start_distance |-> start_dist,
              end_distance |-> end_dist,
              driver1_sector_time |-> driver1_sector_time,
              driver2_sector_time |-> driver2_sector_time,
              time_difference |-> time_difference,
              dominant_driver |-> IF RLt(time_difference, R(0))
                                  THEN driver1_name ELSE driver2_name,
              max_speed_delta |-> NpMax(speed_deltas),
              avg_speed_delta |-> NpMean(speed_deltas),
              speed_advantage_distance |->
                 RMul(Rat(driver1_advantage_points, Len(sector_points)),
                      RSub(end_dist, start_dist))]

\* the sector loop of compare_sessions (lines 438-448)
AnalyzeSectors(points, driver1_name, driver2_name) ==
    LET total_distance == NpMax([i \in 1..Len(points) |-> points[i].distance])
        sectors == create_sectors(total_distance, num_sectors)
    IN  [i \in 1..Len(sectors) |->
            analyze_sector(i, sectors[i][1], sectors[i][2], points,
                           driver1_name, driver2_name)]

SectorSpeeds == {R(0), R(54), R(108)}

InitSector ==
    \E n \in 1..MaxPoints :
        \E speed1 \in [1..n -> SectorSpeeds] :
            \E speed2 \in [1..n -> SectorSpeeds] :
                Call("analyze_sector",
                     [comparison_points |->
                         [i \in 1..n |-> ComparisonPoint(Grid(n)[i], speed1[i], speed2[i])],
                      driver1_name |-> "Driver A",
                      driver2_name |-> "Driver B"])

AnalyzeSectorsCall ==
    /\ entry = "analyze_sector"
    /\ pc = "start"
    /\ Return(AnalyzeSectors(request.comparison_points, request.driver1_name,
                             request.driver2_name))
    /\ UNCHANGED locals

NextSector == AnalyzeSectorsCall

SpecSector == InitSector /\ [][NextSector]_vars

(***************************************************************************)
(* DataComparisonEngine._find_top_speed_zones                              *)
(***************************************************************************)
top_speed_threshold == 150

\* the test of line 637 applied to driver1 alone
TopSpeedDriver1Only(point) == RGt(point.driver1_speed, R(top_speed_threshold))

\* line 637
TopSpeed(point) ==
    \/ RGt(point.driver1_speed, R(top_speed_threshold))
    \/ RGt(point.driver2_speed, R(top_speed_threshold))

\* the loop body for the 0-based index i (lines 636-654): scan is the pair of
\* the zones closed so far and the current zone (None when there is none)
TopSpeedLoopBody(points, i, scan) ==
    LET zones == scan[1]
        current_zone == scan[2]
        point == points[i + 1]
    IN  IF TopSpeed(point)
        THEN IF current_zone = None
             THEN <<zones, Some([start_distance |-> point.distance,
                                 start_index |-> i,
                                 max_speed_driver1 |-> point.driver1_speed,
                                 max_speed_driver2 |-> point.driver2_speed])>>
             ELSE <<zones, Some([current_zone[1] EXCEPT
                                   !.max_speed_driver1 = RMax(@, point.driver1_speed),
                                   !.max_speed_driver2 = RMax(@, point.driver2_speed)])>>
        ELSE IF current_zone # None
             THEN <<Append(zones,
                           [start_distance |-> current_zone[1].start_distance,
                            start_index |-> current_zone[1].start_index,
                            max_speed_driver1 |-> current_zone[1].max_speed_driver1,
                            max_speed_driver2 |-> current_zone[1].max_speed_driver2,
                            end_distance |-> IF i > 0 THEN points[i].distance
                                             ELSE point.distance,
                            end_index |-> i - 1]),
                    None>>
             ELSE scan

RECURSIVE TopSpeedLoop(_, _)
TopSpeedLoop(points, n) ==
    IF n = 0 THEN <<<<>>, None>>
    ELSE TopSpeedLoopBody(points, n - 1, TopSpeedLoop(points, n - 1))

\* the loop, then the closing of the final zone (lines 656-662)
FindTopSpeedZones(points) ==
    LET scan == TopSpeedLoop(points, Len(points))
        zones == scan[1]
        current_zone == scan[2]
    IN  IF current_zone # None
        THEN Append(zones,
                    [start_distance |-> current_zone[1].start_distance,
                     start_index |-> current_zone[1].start_index,
                     max_speed_driver1 |-> current_zone[1].max_speed_driver1,
                     max_speed_driver2 |-> current_zone[1].max_speed_driver2,
                     end_distance |-> points[Len(points)].distance,
                     end_index |-> Len(points) - 1])
        ELSE zones

ZoneSpeeds == {R(150), R(160), R(200)}

InitZones ==
    \E n \in 0..MaxPoints :
        \E speed1 \in [1..n -> ZoneSpeeds] :
            \E speed2 \in [1..n -> ZoneSpeeds] :
                Call("_find_top_speed_zones",
                     [points |-> [i \in 1..n |->
                                    ComparisonPoint(Grid(n)[i], speed1[i], speed2[i])]])

FindTopSpeedZonesCall ==
    /\ entry = "_find_top_speed_zones"
    /\ pc = "start"
    /\ Return(FindTopSpeedZones(request.points))
    /\ UNCHANGED locals

NextZones == FindTopSpeedZonesCall

SpecZones == InitZones /\ [][NextZones]_vars

(***************************************************************************)
(* DriverActionClassifier.analyze_action_sequence                          *)
(***************************************************************************)
\* the members of DriverAction in the order of their definition
DriverAction == <<"FULL_THROTTLE", "PARTIAL_THROTTLE", "COASTING", "BRAKING", "TRAIL_BRAKING">>

Elements(seq) == {seq[k] : k \in DOMAIN seq}
Min(a, b) == IF a < b THEN a ELSE b

\* a transition test against the first action of the sequence
IsTransitionFromFirst(actions, i) == actions[i + 1] # actions[1]

\* actions[i] != actions[i-1] for the 0-based index i (line 154)
IsTransition(actions, i) == actions[i + 1] # actions[i]

analyze_action_sequence(throttle_data, brake_data) ==
    LET total_points == Min(Len(throttle_data), Len(brake_data))
        actions == [k \in 1..total_points |-> classify_action(throttle_data[k], brake_data[k])]
        action_counts == [a \in Elements(DriverAction) |->
                             Cardinality({k \in 1..total_points : actions[k] = a})]
        action_percentages == [a \in Elements(DriverAction) |->
                                  RMul(Rat(action_counts[a], total_points), R(100))]
        at == Ascending({i \in 1..(total_points - 1) : IsTransition(actions, i)})
        transitions == [j \in 1..Len(at) |->
                           [point |-> at[j], from |-> actions[at[j]], to |-> actions[at[j] + 1]]]
        \* max(..., key=...) keeps the first member with the largest percentage
        first_max == FirstIndex({k \in 1..Len(DriverAction) :
                        \A j \in 1..Len(DriverAction) :
                           RLe(action_percentages[DriverAction[j]],
                               action_percentages[DriverAction[k]])})
    IN  [action_distribution |-> action_percentages,
         transitions |-> transitions,
         dominant_action |-> DriverAction[first_max],
         total_transitions |-> Len(transitions)]

SequenceThrottles == {R(5), R(20), R(100)}
SequenceBrakes == {R(0), R(10)}

InitSequence ==
    \E n \in 1..MaxPoints :
        \E throttle_data \in [1..n -> SequenceThrottles] :
            \E brake_data \in [1..n -> SequenceBrakes] :
                Call("analyze_action_sequence",
                     [throttle_data |-> throttle_data, brake_data |-> brake_data])

AnalyzeActionSequenceCall ==
    /\ entry = "analyze_action_sequence"
    /\ pc = "start"
    /\ Return(analyze_action_sequence(request.throttle_data, request.brake_data))
    /\ UNCHANGED locals

NextSequence == AnalyzeActionSequenceCall

SpecSequence == InitSequence /\ [][NextSequence]_vars

(***************************************************************************)
(* Calls of the global rate limiter                                        *)
(***************************************************************************)
ClientIds == {"user:1", "ip:10.0.0.1"}

\* the seconds that pass between two calls
Delays == {0, 1, cleanup_interval + 1, window_seconds - 1, window_seconds}

\* request is the sequence of the calls made, result that of their answers
InitRateLimit ==
    /\ entry = "is_allowed"
    /\ request = <<>>
    /\ pc = "idle"
    /\ lap1 = None
    /\ lap2 = None
    /\ lap1_distance_aligned = None
    /\ lap2_distance_aligned = None
    /\ aligned_data = None
    /\ comparison_metrics = None
    /\ sector_analysis = None
    /\ result = <<>>
    /\ raised = None
    /\ cache = EmptyDict
    /\ rate_limiter = NewRateLimiter

LastTime == IF request = <<>> THEN 0 ELSE request[Len(request)].current_time

IsAllowedCall ==
    /\ entry = "is_allowed"
    /\ Len(request) < MaxCalls
    /\ \E client_id \in ClientIds, delay \in Delays :
          LET current_time == LastTime + delay
              answer == is_allowed(rate_limiter, current_time, client_id,
                                   max_requests, window_seconds)
          IN  /\ request' = Append(request, [client_id |-> client_id,
                                             current_time |-> current_time])
              /\ result' = Append(result, answer[1])
              /\ rate_limiter' = answer[2]
    /\ UNCHANGED <<entry, pc, raised, cache>>
    /\ UNCHANGED locals

NextRateLimit == IsAllowedCall

SpecRateLimit == InitRateLimit /\ [][NextRateLimit]_vars

(***************************************************************************)
(* Properties                                                              *)
(***************************************************************************)
AlignDone == entry = "align_sessions" /\ pc = "done"
CompareDone == entry = "compare_sessions" /\ pc = "done"
Keys(value) == DOMAIN value

\* C1: no call of align_sessions or compare_sessions lets an exception
\* escape; a failure is returned as a result with success = false and an
\* error description.
C1_NoExceptionEscapes ==
    (entry \in {"align_sessions", "compare_sessions"} /\ pc = "done") =>
        /\ raised = None
        /\ result # None
        /\ "success" \in Keys(result[1])
        /\ (~result[1].success => "error" \in Keys(result[1]))

\* the distance of the last sample of a lap that has samples
LastDistance(lap) ==
    CumulativeDistance(lap.data_points, Len(lap.data_points))

\* a selected lap has no samples, or the common distance is <= 0
Degenerate(l1, l2) ==
    \/ l1.data_points = <<>>
    \/ l2.data_points = <<>>
    \/ RLe(RMin(LastDistance(l1), LastDistance(l2)), R(0))

\* C2: align_sessions returns success = false with an error and without
\* aligned_data, comparison_metrics or sector_analysis whenever a selected lap
\* has no samples or the common distance is <= 0; it never returns
\* success = true with an empty grid.
C2_DegenerateAlignmentFails ==
    (AlignDone /\ lap1 # None /\ lap2 # None) =>
        /\ Degenerate(lap1[1], lap2[1]) =>
              /\ ~result[1].success
              /\ "error" \in Keys(result[1])
              /\ Keys(result[1]) \cap {"aligned_data", "comparison_metrics",
                                       "sector_analysis"} = {}
        /\ result[1].success => result[1].aligned_data.distance # <<>>

\* both sessions hold a fastest lap with samples and no lap number is requested
FastestLapsRequested ==
    /\ request.use_fastest_laps
    /\ request.specific_lap1 = None
    /\ request.specific_lap2 = None
    /\ request.session1.fastest_lap # None
    /\ request.session2.fastest_lap # None
    /\ request.session1.fastest_lap[1].data_points # <<>>
    /\ request.session2.fastest_lap[1].data_points # <<>>

\* driver1's aligned time is below driver2's at every point of a non-empty grid
Driver1FasterEverywhere ==
    LET a == AlignByDistance(
                 CalculateDistanceAlignment(request.session1.fastest_lap[1])[1],
                 CalculateDistanceAlignment(request.session2.fastest_lap[1])[1])
    IN  /\ a.distance # <<>>
        /\ a.driver1 # EmptyDict
        /\ a.driver2 # EmptyDict
        /\ \A i \in 1..Len(a.distance) : RLt(a.driver1["time"][i], a.driver2["time"][i])

\* C3: compare_sessions on two sessions with valid fastest laps, driver1's
\* aligned time below driver2's at every grid point, completes (raises
\* nothing) with a ComparisonResult whose total_time_delta, the last
\* comparison point's time delta, is < 0 and whose faster_driver is driver1.
C3_Driver1Faster ==
    (CompareDone /\ FastestLapsRequested /\ Driver1FasterEverywhere) =>
        /\ raised = None
        /\ result # None
        /\ RLt(result[1].total_time_delta, R(0))
        /\ result[1].faster_driver = request.session1.driver_name

\* the lap the specification selects: the requested number, else the fastest
\* lap, else the first lap; None when there is none
SpecifiedLap(session, specific_lap) ==
    IF specific_lap # None THEN FirstLapNumbered(session.laps, specific_lap[1])
    ELSE IF session.fastest_lap # None THEN session.fastest_lap
    ELSE IF session.laps # <<>> THEN Some(session.laps[1])
    ELSE None

\* C4: in align_sessions and in _select_lap alike, the lap selected is the
\* lap with the requested number (none if absent), else the session's fastest
\* lap, else the first lap of the session (none only when the session has no
\* laps); stated for calls that ask for the fastest laps, the default.
C4_LapSelection ==
    (entry \in {"align_sessions", "compare_sessions"} /\ pc # "start"
        /\ request.use_fastest_laps) =>
        /\ lap1 = SpecifiedLap(request.session1, request.specific_lap1)
        /\ lap2 = SpecifiedLap(request.session2, request.specific_lap2)

\* C5: the distance sequence of _calculate_distance_alignment starts at 0 and
\* is non-decreasing, also where time goes backwards or a speed is negative.
C5_DistanceNonDecreasing ==
    (entry = "_calculate_distance_alignment" /\ pc = "done" /\ result[1] # None) =>
        LET points == result[1][1]
        IN  /\ points[1].distance = R(0)
            /\ \A i \in 1..(Len(points) - 1) :
                  RLe(points[i].distance, points[i + 1].distance)

\* the common distance of the two laps handed to the Track Aligner
CommonDistance ==
    LET d1 == lap1_distance_aligned[1]
        d2 == lap2_distance_aligned[1]
    IN  RMin(d1[Len(d1)].distance, d2[Len(d2)].distance)

\* _align_by_distance has run on two laps of positive total distance
AlignedPositive ==
    /\ entry = "align_sessions"
    /\ aligned_data # None
    /\ RGt(CommonDistance, R(0))

Drivers == {"driver1", "driver2"}

\* every channel array a driver's dict holds has n values
ChannelArraysHaveLength(aligned, n) ==
    \A d \in Drivers : \A c \in DOMAIN aligned[d] : Len(aligned[d][c]) = n

\* C6 (as stated): for laps with positive total distances the grid and every
\* aligned channel array have length exactly floor(min(total_distance1,
\* total_distance2) / 10), also when the common distance is no multiple of 10.
C6_GridLengthFloor ==
    AlignedPositive =>
        LET n == RFloor(RDiv(CommonDistance, R(distance_spacing)))
        IN  /\ Len(aligned_data[1].distance) = n
            /\ ChannelArraysHaveLength(aligned_data[1], n)

\* C6 (amended): for laps with positive total distances the grid has as many
\* points as there are multiples of 10 strictly below the common distance,
\* i.e. the n with 10*(n-1) < common distance <= 10*n, which is
\* ceil(common distance / 10); every channel array present has that length.
C6_GridLengthCeil ==
    AlignedPositive =>
        LET n == Len(aligned_data[1].distance)
        IN  /\ RLt(R(distance_spacing * (n - 1)), CommonDistance)
            /\ RLe(CommonDistance, R(distance_spacing * n))
            /\ ChannelArraysHaveLength(aligned_data[1], n)

\* two laps aligned whose common distance is no multiple of 10, with the
\* channels of both drivers interpolated
C6_Witness ==
    /\ AlignedPositive
    /\ RFloor(RDiv(CommonDistance, R(distance_spacing)))
          # RCeil(RDiv(CommonDistance, R(distance_spacing)))
    /\ \A d \in Drivers : DOMAIN aligned_data[1][d] = Channels
    /\ Len(aligned_data[1].driver1["time"]) = Len(aligned_data[1].distance)

\* C7: in every successful alignment the grid is 0, 10, 20, ... strictly
\* below the common distance, and for both drivers each of the channels time,
\* speed, throttle, brake, gear, rpm and the temperatures is present with as
\* many values as the grid has points.
C7_GridAndChannels ==
    (AlignDone /\ result[1].success) =>
        LET a == result[1].aligned_data
            n == Len(a.distance)
        IN  /\ \A i \in 1..n : /\ a.distance[i] = R(distance_spacing * (i - 1))
                               /\ RLt(a.distance[i], CommonDistance)
            /\ RGe(R(distance_spacing * n), CommonDistance)
            /\ \A d \in Drivers : \A c \in Channels :
                  c \in DOMAIN a[d] /\ Len(a[d][c]) = n

DeltaDone ==
    /\ entry = "_calculate_lap_delta_detailed"
    /\ pc = "done"
    /\ "error" \notin DOMAIN result[1]

\* C8: every zero crossing the delta analyzer reports has an index k such
\* that cumulative_delta changes sign between the grid points k and k+1, and
\* its distance lies between the distances of those two points, hence within
\* [0, total distance]; none is reported where the sign stays the same.
C8_ZeroCrossingsAreSignChanges ==
    DeltaDone =>
        LET cd == result[1].cumulative_delta_array
            ds == result[1].distance_array
            zc == result[1].zero_crossings
        IN  \A j \in 1..Len(zc) :
                LET k == zc[j].index + 1
                IN  /\ k \in 1..(Len(cd) - 1)
                    /\ IsFinite(cd[k]) /\ IsFinite(cd[k + 1])
                    /\ Sgn(cd[k][1]) # 0
                    /\ Sgn(cd[k][1]) * Sgn(cd[k + 1][1]) <= 0
                    /\ RLe(ds[k], zc[j].distance)
                    /\ RLe(zc[j].distance, ds[k + 1])
                    /\ RLe(R(0), zc[j].distance)
                    /\ RLe(zc[j].distance, ds[Len(ds)])

\* an analysis that reports a zero crossing
C8_Witness ==
    /\ DeltaDone
    /\ result[1].zero_crossings # <<>>

\* driver1's time is driver2's minus 2 at every point of a non-empty grid
ConstantOffset ==
    /\ DeltaDone
    /\ \A i \in 1..Len(request.driver1["time"]) :
          RSub(request.driver2["time"][i], request.driver1["time"][i]) = R(2)

\* C9 (as stated): under a constant 2.0 s offset cumulative_delta is constant
\* with magnitude 2.0, zero_crossings is empty and both max advantages have a
\* time_gap of magnitude 2.0.
C9_ConstantOffsetMagnitudeTwo ==
    ConstantOffset =>
        LET cd == result[1].cumulative_delta_array
            ma == result[1].max_advantages
        IN  /\ \A i \in 1..Len(cd) : RAbs(cd[i]) = R(2)
            /\ result[1].zero_crossings = <<>>
            /\ RAbs(ma.driver1_max_advantage.time_gap) = R(2)
            /\ RAbs(ma.driver2_max_advantage.time_gap) = R(2)

\* C9 (amended): under a constant 2.0 s offset time_delta is -2.0 at every
\* point, cumulative_delta (normalised to its first value) is 0 at every
\* point, zero_crossings is empty, and max_time_gap and the time_gap of both
\* max advantages are 0.
C9_ConstantOffsetNormalised ==
    ConstantOffset =>
        LET td == result[1].time_delta_array
            cd == result[1].cumulative_delta_array
            ma == result[1].max_advantages
        IN  /\ \A i \in 1..Len(td) : td[i] = R(-2)
            /\ \A i \in 1..Len(cd) : cd[i] = R(0)
            /\ result[1].zero_crossings = <<>>
            /\ result[1].max_time_gap = R(0)
            /\ ma.driver1_max_advantage.time_gap = R(0)
            /\ ma.driver2_max_advantage.time_gap = R(0)

\* an analysis of a constant 2.0 s offset over at least two grid points
C9_Witness ==
    /\ ConstantOffset
    /\ Len(result[1].cumulative_delta_array) >= 2
    /\ result[1].time_delta_start = R(-2)

\* C10: aligning a lap against itself yields time_delta 0 at every grid
\* point, cumulative_delta_final 0 and no zero crossings.
C10_SelfAlignment ==
    (/\ AlignDone
     /\ result[1].success
     /\ lap1 = lap2
     /\ "time_comparison" \in DOMAIN result[1].comparison_metrics) =>
        LET tc == result[1].comparison_metrics["time_comparison"]
        IN  /\ \A i \in 1..Len(tc.time_delta_array) : tc.time_delta_array[i] = R(0)
            /\ tc.cumulative_delta_final = R(0)
            /\ tc.zero_crossings = <<>>

Zeros(n) == [i \in 1..n |-> R(0)]

\* the grid points the specification puts in sector number n (1-based)
PointsOfSector(distances, n) ==
    LET sector_length == RDiv(distances[Len(distances)], R(num_sectors))
    IN  SectorIndices(distances, RMul(R(n - 1), sector_length), RMul(R(n), sector_length))

\* C11: every successful comparison reports one sector record for each of
\* the N (default 3) sectors, sector_1 .. sector_N; a sector that contains
\* no grid point is reported as a zeroed placeholder record, neither omitted
\* nor turned into an error.
C11_EverySectorReported ==
    (AlignDone /\ result[1].success) =>
        LET sa == result[1].sector_analysis
            distances == result[1].aligned_data.distance
        IN  /\ DOMAIN sa = 1..num_sectors
            /\ \A n \in 1..num_sectors :
                  (distances = <<>> \/ PointsOfSector(distances, n) = {}) =>
                      \A f \in DOMAIN sa[n] :
                          /\ sa[n][f].driver1 = R(0)
                          /\ sa[n][f].driver2 = R(0)
                          /\ sa[n][f].difference = R(0)

\* fewer than 2 samples of the lap hold a value of the channel
Degraded(lap_data, c) ==
    Cardinality({i \in 1..Len(lap_data) : lap_data[i][c] # None}) < 2

\* C12: when a channel of a lap has fewer than 2 valid samples (water_temp or
\* oil_temp absent), the alignment still succeeds, that channel's aligned
\* array is all zeros of grid length, and every other channel of that lap is
\* interpolated exactly as it would be without the degraded channel.
C12_DegradedChannelZeroFilled ==
    (AlignDone /\ lap1_distance_aligned # None /\ lap2_distance_aligned # None) =>
        \A d \in Drivers : \A c \in OptionalChannels :
            LET lap_data == IF d = "driver1" THEN lap1_distance_aligned[1]
                            ELSE lap2_distance_aligned[1]
            IN  Degraded(lap_data, c) =>
                  /\ result[1].success
                  /\ LET a == result[1].aligned_data
                     IN  /\ c \in DOMAIN a[d]
                         /\ a[d][c] = Zeros(Len(a.distance))
                         /\ \A o \in Channels \ OptionalChannels :
                               /\ o \in DOMAIN a[d]
                               /\ a[d][o] = InterpolateChannel(lap_data, o, a.distance)

InterpolateDone ==
    /\ entry = "_interpolate_lap_data"
    /\ pc = "done"

\* the field of a sample behind each channel that `or 0` fills in
FieldOfChannel ==
    [speed |-> "speed", throttle |-> "throttle_pos", brake |-> "brake_pos", rpm |-> "rpm"]

\* the (distance, value) points of the samples that hold the channel's field
PresentCurve(data_points, lap_data, channel) ==
    LET present == Ascending({i \in 1..Len(data_points) :
                                 data_points[i][FieldOfChannel[channel]] # None})
    IN  [k \in 1..Len(present) |->
            <<lap_data[present[k]].distance, lap_data[present[k]][channel]>>]

\* C13: a sample whose speed, throttle, brake or rpm is absent contributes
\* nothing to that channel's interpolation curve: the channel is interpolated
\* over the samples that hold a value only (all zeros when fewer than two
\* do), and an absent value is never treated as a reading of 0.
C13_AbsentValuesContributeNothing ==
    (InterpolateDone /\ result[1] # EmptyDict) =>
        \A channel \in DOMAIN FieldOfChannel :
            LET ps == PresentCurve(request.lap.data_points, lap1_distance_aligned[1], channel)
                grid == request.target_distances
            IN  result[1][channel] =
                    IF Len(ps) >= 2 THEN [g \in 1..Len(grid) |-> Interp1d(ps, grid[g])]
                    ELSE Zeros(Len(grid))

\* C14: every value in the aligned gear array of either driver is an integer
\* >= 1, also at grid points between two samples with different gears.
C14_GearIsInteger ==
    (entry = "align_sessions" /\ aligned_data # None) =>
        \A d \in Drivers :
            "gear" \in DOMAIN aligned_data[1][d] =>
                \A g \in 1..Len(aligned_data[1][d]["gear"]) :
                    LET gear == aligned_data[1][d]["gear"][g]
                    IN  /\ IsFinite(gear)
                        /\ gear[2] = 1
                        /\ gear[1] >= 1

ActionDone == entry = "classify_action" /\ pc = "done"

\* C15: for every throttle and brake value in 0..100 classify_action returns
\* the category of the ordered rules, first match wins: throttle >= 95 gives
\* FULL_THROTTLE whatever the brake; else brake >= 5 gives TRAIL_BRAKING when
\* throttle >= 15 and BRAKING otherwise; else throttle <= 5 and brake <= 5
\* gives COASTING; else PARTIAL_THROTTLE.
C15_ClassifyActionRules ==
    ActionDone =>
        LET t == request.throttle
            b == request.brake
            full  == ~RLt(t, R(95))
            brk   == ~full /\ ~RLt(b, R(5))
            coast == ~full /\ ~brk /\ ~RGt(t, R(5)) /\ ~RGt(b, R(5))
        IN  /\ (result[1] = "FULL_THROTTLE") <=> full
            /\ (result[1] = "TRAIL_BRAKING") <=> (brk /\ ~RLt(t, R(15)))
            /\ (result[1] = "BRAKING") <=> (brk /\ RLt(t, R(15)))
            /\ (result[1] = "COASTING") <=> coast
            /\ (result[1] = "PARTIAL_THROTTLE") <=> (~full /\ ~brk /\ ~coast)
            /\ (t = R(100) /\ b = R(0)) => result[1] = "FULL_THROTTLE"
            /\ (t = R(0) /\ b = R(60)) => result[1] = "BRAKING"
            /\ (t = R(20) /\ b = R(10)) => result[1] = "TRAIL_BRAKING"
            /\ (t = R(2) /\ b = R(2)) => result[1] = "COASTING"
            /\ (t = R(50) /\ b = R(0)) => result[1] = "PARTIAL_THROTTLE"

\* full throttle with the brake applied is classified FULL_THROTTLE
C15_Witness ==
    /\ ActionDone
    /\ RGe(request.throttle, R(95))
    /\ RGe(request.brake, R(5))
    /\ result[1] = "FULL_THROTTLE"

DynamicsDone == entry = "classify_dynamics" /\ pc = "done"

\* the category the rules of C16 give
DynamicsRule(lateral_accel, steering_angle, speed, steering_rate) ==
    LET expected == RDiv(RMul(RMul(speed, speed), RAbs(steering_angle)), R(1000))
        excess   == RSub(RAbs(lateral_accel), expected)
    IN  IF steering_rate # None /\ RGt(RAbs(steering_rate[1]), R(10)) THEN "CORRECTION"
        ELSE IF RLt(speed, R(50)) THEN "NEUTRAL"
        ELSE IF RGt(excess, Rat(1, 10)) THEN "UNDERSTEER"
        ELSE IF RLt(excess, Rat(-1, 10)) THEN "OVERSTEER"
        ELSE "NEUTRAL"

\* C16: classify_dynamics returns CORRECTION when |steering_rate| > 10;
\* otherwise NEUTRAL when speed < 50; otherwise, with expected = speed^2 *
\* |steering_angle| / 1000, NEUTRAL when |lateral_accel| is within 0.1 of
\* expected, UNDERSTEER when it exceeds expected by more than 0.1 and
\* OVERSTEER when it is below by more than 0.1, also for steering_angle = 0
\* and a difference of exactly 0.1; it returns NEUTRAL for (0.1, 5, 100),
\* UNDERSTEER for (0.5, 10, 150) and OVERSTEER for (-0.3, 8, 120).
C16_ClassifyDynamicsRules ==
    DynamicsDone =>
        LET la == request.lateral_accel
            sa == request.steering_angle
            sp == request.speed
        IN  /\ result[1] = DynamicsRule(la, sa, sp, request.steering_rate)
            /\ request.steering_rate = None =>
                  /\ (la = Rat(1, 10) /\ sa = R(5) /\ sp = R(100)) => result[1] = "NEUTRAL"
                  /\ (la = Rat(5, 10) /\ sa = R(10) /\ sp = R(150)) => result[1] = "UNDERSTEER"
                  /\ (la = Rat(-3, 10) /\ sa = R(8) /\ sp = R(120)) => result[1] = "OVERSTEER"

SectorsDone == entry = "create_sectors" /\ pc = "done"

\* C17: for every total_distance >= 0 and sector count N >= 1 create_sectors
\* returns N sectors of equal length total_distance / N that tile the lap:
\* the first starts at 0, each end is the next start, and the last ends at
\* total_distance (3000 m in 3 sectors: 0-1000, 1000-2000, 2000-3000).
C17_SectorsTileTheLap ==
    SectorsDone =>
        LET sectors == result[1]
            n == request.num_sectors
            total == request.total_distance
        IN  /\ Len(sectors) = n
            /\ sectors[1][1] = R(0)
            /\ sectors[n][2] = total
            /\ \A k \in 1..(n - 1) : sectors[k][2] = sectors[k + 1][1]
            /\ \A k \in 1..n : RMul(RSub(sectors[k][2], sectors[k][1]), R(n)) = total
            /\ (total = R(3000) /\ n = 3) =>
                  sectors = <<<<R(0), R(1000)>>, <<R(1000), R(2000)>>, <<R(2000), R(3000)>>>>

\* a lap whose length is no multiple of the sector count, cut into 3 sectors
C17_Witness ==
    /\ SectorsDone
    /\ request.num_sectors = 3
    /\ request.total_distance = R(10)
    /\ result[1][2] = <<Rat(10, 3), Rat(20, 3)>>

DistanceDone == entry = "_calculate_distance_alignment" /\ pc = "done"

\* a GPS pair is on both samples
GpsOnBoth(p, q) ==
    /\ p.gps_latitude # None /\ p.gps_longitude # None
    /\ q.gps_latitude # None /\ q.gps_longitude # None

\* step i -> i + 1 has no GPS pair on both samples and no speed on either
BlindStep(data_points, i) ==
    /\ ~GpsOnBoth(data_points[i], data_points[i + 1])
    /\ data_points[i].speed = None
    /\ data_points[i + 1].speed = None

\* C18: the distance estimator never raises on missing data and returns one
\* distance-tagged sample per input sample (None only for a lap without
\* samples); a step where a GPS pair is not on both samples and speed is
\* missing on both adds a zero increment, so the cumulative distance is
\* unchanged across that step.
C18_MissingDataAddsNothing ==
    DistanceDone =>
        LET data_points == request.lap.data_points
        IN  /\ raised = None
            /\ (result[1] = None) <=> (data_points = <<>>)
            /\ data_points # <<>> =>
                  /\ Len(result[1][1]) = Len(data_points)
                  /\ \A i \in 1..Len(data_points) :
                        /\ "distance" \in DOMAIN result[1][1][i]
                        /\ result[1][1][i].time = R(data_points[i].time)
                  /\ \A i \in 1..(Len(data_points) - 1) :
                        BlindStep(data_points, i) =>
                            result[1][1][i + 1].distance = result[1][1][i].distance

\* a lap with one GPS step that adds distance followed by a step without GPS
\* and without speed, across which the distance stays
C18_Witness ==
    /\ DistanceDone
    /\ Len(request.lap.data_points) = 3
    /\ GpsOnBoth(request.lap.data_points[1], request.lap.data_points[2])
    /\ BlindStep(request.lap.data_points, 2)
    /\ RGt(result[1][1][2].distance, R(0))
    /\ result[1][1][3].distance = result[1][1][2].distance

\* C19: a result served from the cache for a request (session1, session2,
\* lap1, lap2) was computed for that same session pair and that same lap
\* selection; two requests that select different laps (lap1 = 3 with lap2
\* unset, versus both unset) never map to the same cache key.
C19_CacheServesTheSameComparison ==
    (entry = "compare_stored_sessions" /\ result # None /\ result[1].source = "cache") =>
        /\ result[1].comparison.computed_for =
              <<request[1].session1_id, request[1].session2_id,
                request[1].lap1_number, request[1].lap2_number>>
        /\ get_comparison_cache_key(request[1].session1_id, request[1].session2_id,
                                    Some(3), None)
              # get_comparison_cache_key(request[1].session1_id, request[1].session2_id,
                                         None, None)

\* what each stage of align_sessions leaves behind when it succeeded
LapSelectionSucceeded == lap1 # None /\ lap2 # None
DistanceEstimationSucceeded == lap1_distance_aligned # None /\ lap2_distance_aligned # None
\* neither interpolation ended in its exception handler (lines 280-282)
AlignmentSucceeded ==
    /\ aligned_data # None
    /\ aligned_data[1].driver1 # EmptyDict
    /\ aligned_data[1].driver2 # EmptyDict

\* C20: the stages of the orchestrator run in the order lap selection,
\* distance estimation of both laps, alignment, metrics and sector analysis,
\* result assembly; a stage has started only if every earlier stage
\* succeeded, and a success=true result is assembled only after all stages
\* have succeeded.
C20_StagesInOrder ==
    /\ entry = "compare_sessions" =>
          (pc = "align_laps" => LapSelectionSucceeded)
    /\ entry = "align_sessions" =>
          /\ (lap1_distance_aligned # None \/ lap2_distance_aligned # None) =>
                LapSelectionSucceeded
          /\ aligned_data # None =>
                LapSelectionSucceeded /\ DistanceEstimationSucceeded
          /\ (comparison_metrics # None \/ sector_analysis # None) =>
                LapSelectionSucceeded /\ DistanceEstimationSucceeded /\ AlignmentSucceeded
          /\ sector_analysis # None => comparison_metrics # None
          /\ (pc = "done" /\ result[1].success) =>
                /\ LapSelectionSucceeded
                /\ DistanceEstimationSucceeded
                /\ AlignmentSucceeded
                /\ comparison_metrics # None
                /\ sector_analysis # None

\* C21: any interleaving of concurrent invocations on the shared engine
\* gives each invocation the result it has when run alone; no invocation
\* writes its input sessions and laps or a variable of another invocation.
C21_InvocationsAreIndependent ==
    /\ [](entry = "processor" =>
            \A i \in Invocations :
               /\ pc[i] = "idle" => Frame(i) = [NewFrame EXCEPT !.pc = "idle"]
               /\ pc[i] = "done" =>
                     LET alone == RunAlone(request[i][1], NewFrame)
                     IN  result[i] = alone.result /\ raised[i] = alone.raised)
    /\ [][\A i \in Invocations : request[i] # None => request'[i] = request[i]]_vars

\* invocation 1 has returned a successful alignment while invocation 2, called
\* with other arguments, is between its stages: the two ran interleaved
C21_Witness ==
    /\ entry = "processor"
    /\ pc[1] = "done" /\ result[1] # None /\ result[1][1].success
    /\ pc[2] = "sectors"
    /\ request[1] # request[2]
    /\ result[1] = RunAlone(request[1][1], NewFrame).result

SectorDone == entry = "analyze_sector" /\ pc = "done"

\* the sector boundaries compare_sessions hands to analyze_sector
SectorsOf(points) ==
    create_sectors(NpMax([i \in 1..Len(points) |-> points[i].distance]), num_sectors)

\* C22: sector membership is half-open, [start, end): no ComparisonPoint of
\* analyze_sector and no grid point of the delta analyzer's sector split is
\* counted in two sectors; a point on an inner boundary belongs only to the
\* sector that starts there.
C22_SectorMembershipHalfOpen ==
    /\ SectorDone =>
          LET points == request.comparison_points
              sectors == SectorsOf(points)
          IN  \A i \in 1..Len(points) :
                 /\ Cardinality({k \in 1..Len(sectors) :
                        i \in SectorPointIndices(points, sectors[k][1], sectors[k][2])}) <= 1
                 /\ \A k \in 2..Len(sectors) :
                        points[i].distance = sectors[k][1] =>
                           i \notin SectorPointIndices(points, sectors[k - 1][1],
                                                       sectors[k - 1][2])
    /\ DeltaDone =>
          LET distances == request.distances
              sector_length == RDiv(distances[Len(distances)], R(3))
          IN  \A i \in 1..Len(distances) :
                 Cardinality({sector \in 0..2 :
                    i \in DeltaSectorIndices(distances, RMul(R(sector), sector_length),
                                             RMul(R(sector + 1), sector_length))}) <= 1

\* the sector's points, by the filter analyze_sector applies
MembersOf(points, sector) ==
    LET idx == Ascending(SectorPointIndices(points, sector[1], sector[2]))
    IN  [k \in 1..Len(idx) |-> points[idx[k]]]

\* sum of span / (speed / 3.6) over the points with positive speed; every
\* point of the grid covers one grid step
SpanOverSpeed(sector_points, speed_field) ==
    LET positive == Ascending({i \in 1..Len(sector_points) :
                                  RGt(sector_points[i][speed_field], R(0))})
    IN  RSum([k \in 1..Len(positive) |->
                RDiv(R(distance_spacing),
                     RDiv(sector_points[positive[k]][speed_field], Rat(36, 10)))])

SpeedsOf(sector_points, speed_field) ==
    [k \in 1..Len(sector_points) |-> sector_points[k][speed_field]]

\* C23: a driver's sector time is the sum, over the sector's points with
\* positive speed, of the distance span of the point divided by the speed in
\* m/s; points with zero or negative speed contribute nothing, and the
\* estimate does not depend on how far the sector lies from the lap's start.
C23_SectorTimeFromSpans ==
    SectorDone =>
        LET points == request.comparison_points
            sectors == SectorsOf(points)
        IN  /\ \A k \in 1..Len(sectors) :
                  /\ result[1][k].driver1_sector_time =
                        SpanOverSpeed(MembersOf(points, sectors[k]), "driver1_speed")
                  /\ result[1][k].driver2_sector_time =
                        SpanOverSpeed(MembersOf(points, sectors[k]), "driver2_speed")
            /\ \A j \in 1..Len(sectors), k \in 1..Len(sectors) :
                  SpeedsOf(MembersOf(points, sectors[j]), "driver1_speed")
                     = SpeedsOf(MembersOf(points, sectors[k]), "driver1_speed")
                  => result[1][j].driver1_sector_time = result[1][k].driver1_sector_time

\* C24: speed_advantage_distance is the sector length times the fraction of
\* the sector's points at which driver1's speed is higher than driver2's.
C24_SpeedAdvantageIsDriver1Faster ==
    SectorDone =>
        LET points == request.comparison_points
            sectors == SectorsOf(points)
        IN  \A k \in 1..Len(sectors) :
               LET members == MembersOf(points, sectors[k])
                   faster == {i \in 1..Len(members) :
                                 RGt(members[i].driver1_speed, members[i].driver2_speed)}
               IN  members # <<>> =>
                      result[1][k].speed_advantage_distance =
                         RMul(Rat(Cardinality(faster), Len(members)),
                              RSub(sectors[k][2], sectors[k][1]))

\* C25: for every non-empty pair of aligned time arrays cumulative_delta[i] =
\* time_delta[i] - time_delta[0], so cumulative_delta[0] = 0; driver1's
\* maximum advantage is reported at the index of the largest cumulative_delta
\* and driver2's at the index of the smallest, both time_gap values are >= 0,
\* each reported distance is the grid distance at that index, and
\* max_time_gap is the larger of the two time_gap values.
C25_MaxAdvantages ==
    DeltaDone =>
        LET td == result[1].time_delta_array
            cd == result[1].cumulative_delta_array
            ds == result[1].distance_array
            a1 == result[1].max_advantages.driver1_max_advantage
            a2 == result[1].max_advantages.driver2_max_advantage
        IN  /\ \A i \in 1..Len(cd) : cd[i] = RSub(td[i], td[1])
            /\ cd[1] = R(0)
            /\ \A i \in 1..Len(cd) : RLe(cd[i], cd[a1.index + 1])
            /\ \A i \in 1..Len(cd) : RLe(cd[a2.index + 1], cd[i])
            /\ RGe(a1.time_gap, R(0)) /\ RGe(a2.time_gap, R(0))
            /\ a1.distance = ds[a1.index + 1]
            /\ a2.distance = ds[a2.index + 1]
            /\ result[1].max_time_gap = RMax(a1.time_gap, a2.time_gap)

ZonesDone == entry = "_find_top_speed_zones" /\ pc = "done"

\* the 0-based indices at which either driver exceeds 150 km/h
TopSpeedIndices(points) ==
    {i \in 0..(Len(points) - 1) :
        \/ RGt(points[i + 1].driver1_speed, R(150))
        \/ RGt(points[i + 1].driver2_speed, R(150))}

\* C26: _find_top_speed_zones returns the maximal contiguous index ranges
\* where either driver's speed exceeds 150 km/h: the zones are disjoint and
\* ascending, each has start_index <= end_index and both end fields, every
\* index with a speed above 150 lies in exactly one zone, no zone holds an
\* index where both speeds are <= 150, and each zone's max_speed_driver1/2 is
\* that driver's maximum over the zone.
C26_TopSpeedZonesAreMaximalRuns ==
    ZonesDone =>
        LET points == request.points
            zones == result[1]
            top == TopSpeedIndices(points)
            Range(z) == z.start_index..z.end_index
        IN  /\ \A k \in 1..Len(zones) :
                  LET z == zones[k] IN
                  /\ {"end_distance", "end_index"} \subseteq DOMAIN z
                  /\ z.start_index <= z.end_index
                  /\ Range(z) \subseteq top
                  /\ (z.start_index - 1) \notin top
                  /\ (z.end_index + 1) \notin top
                  /\ z.start_distance = points[z.start_index + 1].distance
                  /\ z.end_distance = points[z.end_index + 1].distance
                  /\ z.max_speed_driver1 =
                        NpMax([j \in 1..(z.end_index - z.start_index + 1) |->
                                 points[z.start_index + j].driver1_speed])
                  /\ z.max_speed_driver2 =
                        NpMax([j \in 1..(z.end_index - z.start_index + 1) |->
                                 points[z.start_index + j].driver2_speed])
            /\ \A k \in 1..(Len(zones) - 1) : zones[k].end_index < zones[k + 1].start_index
            /\ \A i \in top :
                  Cardinality({k \in 1..Len(zones) : i \in Range(zones[k])}) = 1

\* two zones separated by a point where neither driver exceeds 150 km/h, the
\* first of them longer than one point with its maximum not at its start
C26_Witness ==
    /\ ZonesDone
    /\ Len(result[1]) = 2
    /\ result[1][1].end_index > result[1][1].start_index
    /\ result[1][1].max_speed_driver1 # request.points[1].driver1_speed
    /\ result[1][1].max_speed_driver2 = R(150)

SequenceDone == entry = "analyze_action_sequence" /\ pc = "done"

C29_SectorGainsSumToFinalGap ==
    DeltaDone =>
        LET deltas == result[1].sector_analysis
        IN  /\ \A j \in 1..Len(deltas) :
                  deltas[j].time_gained_driver2 = RNeg(deltas[j].time_gained_driver1)
            /\ RSum([j \in 1..Len(deltas) |-> deltas[j].time_gained_driver1])
                  = result[1].cumulative_delta_final

\* the answered calls of a client with a time in the half-open interval
\* (from, from + window_seconds]
AllowedWithin(client_id, from) ==
    {k \in 1..Len(request) :
        /\ request[k].client_id = client_id
        /\ result[k]
        /\ request[k].current_time > from
        /\ request[k].current_time <= from + window_seconds}

\* C30: with fixed max_requests and window_seconds, for every client the
\* calls answered True within any interval of window_seconds never exceed
\* max_requests; a call answered False records nothing; and the periodic
\* cleanup never removes a request that is still inside the window.
C30_RateLimit ==
    /\ [](entry = "is_allowed" =>
            \A client_id \in ClientIds :
               \A k \in 1..Len(request) :
                  Cardinality(AllowedWithin(client_id,
                      request[k].current_time - window_seconds)) <= max_requests)
    /\ [][entry = "is_allowed" =>
            LET call == request'[Len(request')]
                before == [c \in ClientIds |->
                              IF c \in DOMAIN rate_limiter.requests
                              THEN rate_limiter.requests[c] ELSE <<>>]
                after == [c \in ClientIds |->
                              IF c \in DOMAIN rate_limiter'.requests
                              THEN rate_limiter'.requests[c] ELSE <<>>]
                StillInside(reqs) ==
                    SelectSeq(reqs, LAMBDA req :
                                 req[1] > call.current_time - window_seconds)
            IN  /\ ~result'[Len(result')] =>
                      after[call.client_id] = StillInside(before[call.client_id])
                /\ \A c \in ClientIds :
                      StillInside(before[c]) = StillInside(after[c])
                         \/ (c = call.client_id /\ result'[Len(result')]
                             /\ after[c] = Append(StillInside(before[c]),
                                                  <<call.current_time, 1>>))]_vars

\* a client is refused after max_requests calls, the cleanup then runs while
\* another client's request is still inside the window, and that request is
\* still recorded afterwards
C30_Witness ==
    /\ entry = "is_allowed"
    /\ Len(request) = 4
    /\ result = <<TRUE, TRUE, FALSE, TRUE>>
    /\ request[1].client_id = request[2].client_id
    /\ request[3].client_id = request[1].client_id
    /\ request[4].client_id # request[1].client_id
    /\ rate_limiter.last_cleanup = request[4].current_time
    /\ rate_limiter.last_cleanup > 0
    /\ request[1].client_id \in DOMAIN rate_limiter.requests
    /\ Len(rate_limiter.requests[request[1].client_id]) = 2

====
